---- MODULE Spec2Model ----
(***************************************************************************)
(* Verification model of the reflectapi Python runtime                     *)
(* (src/reflectapi-python-runtime/src/reflectapi_runtime).                 *)
(*                                                                         *)
(* Each component is a state machine over its own variables and has its   *)
(* own specification; a specification keeps the variables of the other    *)
(* components at their parked (freshly constructed, unused) values.       *)
(*   SpecBatch   batch.py       BatchClient                                *)
(***************************************************************************)
EXTENDS Integers, Sequences, FiniteSets

VARIABLES
    \* ---- batch.py: BatchClient ----
    max_concurrent,   \* BatchClient.max_concurrent
    tasks,            \* BatchClient._tasks: the pending queue, in submission order
    semaphore,        \* value of BatchClient._semaphore
    nextId,           \* identity given to the next task object that is submitted
    gpc,              \* position of the gather() call
    tstate,           \* per queued task: position of its execute_with_semaphore
    tresult,          \* per queued task: what its execute_with_semaphore returned
    completed,        \* indices of the tasks in the order they completed
    gresults,         \* the list gather() returned
    gathers,          \* number of gather() calls started
    \* ---- middleware.py: RetryMiddleware.handle ----
    max_retries,         \* RetryMiddleware.max_retries
    retry_codes_arg,     \* the retry_status_codes argument of the constructor
    retry_status_codes,  \* RetryMiddleware.retry_status_codes
    backoff_factor,      \* RetryMiddleware.backoff_factor, in milliseconds
    method,              \* request.method
    script,              \* what the k-th invocation of next_call will do
    rpc,                 \* position of the handle() call
    attempt,             \* the loop variable of handle()
    last_exception,      \* the local last_exception
    calls,               \* invocations of next_call so far
    sleeps,              \* backoff sleeps so far
    sleep_duration,      \* duration of the latest backoff sleep, in milliseconds
    retry_log,           \* attempt numbers of the "Retrying request" log lines
    retry_result,        \* what handle() returned or raised
    \* ---- auth.py: OAuth2 adapters, asynchronous signing ----
    adapter,        \* which adapter class the instance is
    token,          \* the cached AuthToken (self._token)
    token_lock,     \* the caller that holds self._token_lock, 0 when it is free
    lock_waiters,   \* callers waiting for self._token_lock, first come first
    apc,            \* per caller: position of its apply_auth_async call
    signed,         \* per caller: id of the token in its Authorization header, -1 for none
    posts,          \* token requests sent to the token endpoint
    now,            \* the clock read by time.time(), in seconds
    burst,          \* every call so far began with a stale token and before any call ended
    \* ---- middleware.py: SyncMiddlewareChain / AsyncMiddlewareChain ----
    chain_kind,     \* "sync" or "async": which chain class executes
    chain_len,      \* len(self.middleware)
    send_outcome,   \* what transport.send will do for this request
    cphase,         \* direction of the execute() call: down, up, returned, failed
    cindex,         \* the index argument of the handler that is called next
    cstack,         \* indices of the middleware whose handle() awaits next_call
    clog,           \* events of the call, in the order they happened
    sends,          \* transport.send calls of the call
    chain_result,   \* what execute() returned or raised
    \* ---- streaming.py: AsyncStreamingClient.stream_request, StreamingResponse ----
    use_middleware, \* self.middleware_chain.middleware is not empty
    body_args,      \* which of json_data / json_model the caller passed
    stream_outcome, \* what the transport will do with the request
    chunks_left,    \* chunks of the response body not yet read
    spc,            \* position of the stream_request scope
    sexit,          \* how the scope was left: normal, or the exception raised
    sr_exists,      \* a StreamingResponse was yielded
    sr_closed,      \* StreamingResponse._closed
    resp_closed,    \* response.is_closed of the transport response
    resp_streamed,  \* the response was sent with stream=True
    sr_closes,      \* response.aclose() calls made by StreamingResponse.aclose
    aclose_calls,   \* StreamingResponse.aclose calls made
    error_read,     \* chunks stream_request read from an error response
    error_data,     \* error_data of the ApplicationError raised by stream_request
    iterating,      \* the scope body is inside an aiter_bytes loop
    gen_pending,    \* an abandoned aiter_bytes generator awaits its finalizer
    body_err,       \* exception raised in the scope body and not yet handled
    received,       \* chunks handed to the scope body
    \* ---- client.py / streaming.py: ownership of the transport client ----
    wrapper,          \* ClientBase, AsyncClientBase or AsyncStreamingClient
    client_arg,       \* a transport was passed as client= at construction
    owns_client,      \* self._owns_client
    cscope,           \* the with / async with scope: none, inside, left
    transport_closed, \* the transport (self._client) has been closed
    closes_invoked,   \* calls of the wrapper's close() / aclose()
    wrapper_closes,   \* calls of self._client.close() / aclose() by the wrapper
    requests_sent,    \* requests the transport accepted
    requests_refused, \* requests the closed transport refused
    \* ---- client.py: ClientBase._make_request / AsyncClientBase._make_request ----
    rq_client,      \* ClientBase or AsyncClientBase
    rq_args,        \* which of json_data / json_model the caller passed
    rq_middleware,  \* self.middleware_chain.middleware is not empty
    rq_model,       \* the response_model argument
    rq_outcome,     \* what the transport will do with the request
    rq_pc,          \* position inside _make_request
    rq_sends,       \* calls of the transport's send
    rq_parses,      \* calls of response.json() by _handle_error_response
    rq_decodes,     \* response decodings attempted (_validate_response_model, _parse_json_response)
    rq_result,      \* what _make_request returned or raised
    \* ---- auth.py: OAuth2ClientCredentialsAuth, synchronous path ----
    tk_token,       \* self._token
    tk_now,         \* time.time(), in seconds
    tk_posts,       \* token requests sent
    tk_signs,       \* apply_auth calls made
    tk_header,      \* id of the token in the Authorization header last written
    tk_raised,      \* the last apply_auth call raised
    tk_seen,        \* the last value read from AuthToken.is_expired
    \* ---- testing.py: CassetteClient and the cassette middleware ----
    cassette_mode,          \* CassetteClient._mode
    allow_new_requests,     \* CassetteClient.allow_new_requests
    playback_interactions,  \* CassetteClient._playback_interactions
    recorded_interactions,  \* CassetteClient._recorded_interactions
    current_interaction,    \* CassetteClient._current_interaction
    cassette_file,          \* the interactions in the cassette file
    transport_calls,        \* real calls made on the transport
    cassette_ops,           \* operations performed on the cassette objects
    cassette_last,          \* the last operation and what it returned or raised
    \* ---- batch.py: BatchContextManager ----
    client_make_request,    \* client._make_request: 0 the client's own, m batch_request of m
    original_make_request,  \* per manager: self._original_make_request (-1 is None)
    bscope,                 \* per manager: new, active, left
    entered_with,           \* per manager: client._make_request when the scope was entered
    exit_kind,              \* per manager: how the scope was left
    batch_tasks,            \* per manager: tasks in self.batch_client
    transport_requests,     \* requests issued by the client's own _make_request
    task_errors,            \* tasks that ended in an exception
    invocations,            \* calls of client._make_request by the caller
    batch_gathers,          \* calls of gather()
    batch_last,             \* the last operation
    \* ---- streaming.py: StreamingResponse.save_to_file, AsyncStreamingClient.download_file ----
    dl_entry,               \* the operation called: save_to_file or download_file
    dl_outcome,             \* download_file: what the transport does with the request
    dl_preclosed,           \* save_to_file: the response was closed before the call
    dl_chunks,              \* chunks of the body not yet read
    dl_file,                \* the file at file_path: absent, old, partial, complete
    dl_written,             \* chunks written to the file
    dl_pc,                  \* position: start, writing, yielded, done
    dl_error,               \* the exception raised in the write loop or by the caller's body
    dl_error_at,            \* where it was raised
    dl_result,              \* what reached the caller: returned, or the exception
    dl_closed,              \* the StreamingResponse is closed
    \* ---- testing.py: a cassette recorded, saved and loaded again ----
    rt_mode,                \* CassetteClient._mode of the client at hand
    rt_recorded,            \* CassetteClient._recorded_interactions
    rt_playback,            \* CassetteClient._playback_interactions
    rt_file,                \* the cassette file: whether it exists and its JSON document
    rt_saved,               \* the interactions the last save_cassette call was given
    rt_ops,                 \* operations made so far
    \* ---- auth.py: OAuth2ClientCredentialsAuth.apply_auth called from several threads ----
    th_token,               \* the adapter's _token
    th_stale,               \* ids of the tokens whose is_expired is True by now
    th_pc,                  \* each thread's position in apply_auth
    th_local,               \* each thread's value of _get_valid_token_sync
    th_reply,               \* each thread's token response
    th_posts,               \* token requests sent
    th_header,              \* each thread's request: the token in its Authorization header
    th_result,              \* how each thread's call ended
    \* ---- auth.py: OAuth2AuthorizationCodeAuth, synchronous path ----
    ac_token,               \* the adapter's _token
    ac_now,                 \* the clock, in seconds
    ac_posts,               \* refresh requests sent
    ac_signs,               \* apply_auth calls made
    ac_header,              \* the Authorization header of the last call's request: a token id, or -1
    ac_error,               \* the message of the exception the last call raised, or none
    \* ---- client.py: the two _make_request variants on the same input ----
    pa_args,                \* the body arguments passed: none, json_data, json_model, both
    pa_model,               \* the response_model passed
    pa_outcome,             \* what the transport does with the request
    pa_content,             \* the type of response.content
    pa_sync,                \* what ClientBase._make_request gave, once called
    pa_async,               \* what AsyncClientBase._make_request gave, once called
    \* ---- option.py: serialize_option_dict and ReflectapiOption.map ----
    so_data,                \* the mapping passed to serialize_option_dict
    so_result,              \* the mapping it returned
    so_done,                \* serialize_option_dict has been called
    om_opt,                 \* the option map is called on
    om_func,                \* the function passed to map, as a table
    om_calls,               \* calls of the function made by map
    om_mapped,              \* the option map returned
    om_unwrapped,           \* what unwrap() of that option gave: a value, or ValueError
    om_done                 \* map has been called

batchVars == <<max_concurrent, tasks, semaphore, nextId, gpc, tstate, tresult,
               completed, gresults, gathers>>

retryVars == <<max_retries, retry_codes_arg, retry_status_codes, backoff_factor, method,
               script, rpc, attempt, last_exception, calls, sleeps, sleep_duration,
               retry_log, retry_result>>

authVars == <<adapter, token, token_lock, lock_waiters, apc, signed, posts, now, burst>>

chainVars == <<chain_kind, chain_len, send_outcome, cphase, cindex, cstack, clog, sends,
               chain_result>>

streamVars == <<use_middleware, body_args, stream_outcome, chunks_left, spc, sexit, sr_exists,
                sr_closed, resp_closed, resp_streamed, sr_closes, aclose_calls, iterating, gen_pending,
                body_err, received, error_read, error_data>>

clientVars == <<wrapper, client_arg, owns_client, cscope, transport_closed, closes_invoked,
                wrapper_closes, requests_sent, requests_refused>>

requestVars == <<rq_client, rq_args, rq_middleware, rq_model, rq_outcome, rq_pc, rq_sends,
                 rq_parses, rq_decodes, rq_result>>

tokenVars == <<tk_token, tk_now, tk_posts, tk_signs, tk_header, tk_raised, tk_seen>>

cassetteVars == <<cassette_mode, allow_new_requests, playback_interactions,
                  recorded_interactions, current_interaction, cassette_file, transport_calls,
                  cassette_ops, cassette_last>>

scopeVars == <<client_make_request, original_make_request, bscope, entered_with, exit_kind,
               batch_tasks, transport_requests, task_errors, invocations, batch_gathers,
               batch_last>>

downloadVars == <<dl_entry, dl_outcome, dl_preclosed, dl_chunks, dl_file, dl_written, dl_pc,
    dl_error, dl_error_at, dl_result, dl_closed>>

roundtripVars == <<rt_mode, rt_recorded, rt_playback, rt_file, rt_saved, rt_ops>>

threadsVars == <<th_token, th_stale, th_pc, th_local, th_reply, th_posts, th_header,
    th_result>>

authcodeVars == <<ac_token, ac_now, ac_posts, ac_signs, ac_header, ac_error>>

parityVars == <<pa_args, pa_model, pa_outcome, pa_content, pa_sync, pa_async>>

optionVars == <<so_data, so_result, so_done, om_opt, om_func, om_calls, om_mapped,
    om_unwrapped, om_done>>

vars == <<batchVars, retryVars, authVars, chainVars, streamVars, clientVars, requestVars,
    tokenVars, cassetteVars, scopeVars, downloadVars, roundtripVars, threadsVars,
    authcodeVars, parityVars, optionVars>>

\* What the actions of one component leave alone.
notBatchVars == <<retryVars, authVars, chainVars, streamVars, clientVars, requestVars,
    tokenVars, cassetteVars, scopeVars, downloadVars, roundtripVars, threadsVars,
    authcodeVars, parityVars, optionVars>>
notRetryVars == <<batchVars, authVars, chainVars, streamVars, clientVars, requestVars,
    tokenVars, cassetteVars, scopeVars, downloadVars, roundtripVars, threadsVars,
    authcodeVars, parityVars, optionVars>>
notAuthVars == <<batchVars, retryVars, chainVars, streamVars, clientVars, requestVars,
    tokenVars, cassetteVars, scopeVars, downloadVars, roundtripVars, threadsVars,
    authcodeVars, parityVars, optionVars>>
notChainVars == <<batchVars, retryVars, authVars, streamVars, clientVars, requestVars,
    tokenVars, cassetteVars, scopeVars, downloadVars, roundtripVars, threadsVars,
    authcodeVars, parityVars, optionVars>>
notClientVars == <<batchVars, retryVars, authVars, chainVars, streamVars, requestVars,
    tokenVars, cassetteVars, scopeVars, downloadVars, roundtripVars, threadsVars,
    authcodeVars, parityVars, optionVars>>
notRequestVars == <<batchVars, retryVars, authVars, chainVars, streamVars, clientVars,
    tokenVars, cassetteVars, scopeVars, downloadVars, roundtripVars, threadsVars,
    authcodeVars, parityVars, optionVars>>
notTokenVars == <<batchVars, retryVars, authVars, chainVars, streamVars, clientVars,
    requestVars, cassetteVars, scopeVars, downloadVars, roundtripVars, threadsVars,
    authcodeVars, parityVars, optionVars>>
notCassetteVars == <<batchVars, retryVars, authVars, chainVars, streamVars, clientVars,
    requestVars, tokenVars, scopeVars, downloadVars, roundtripVars, threadsVars, authcodeVars,
    parityVars, optionVars>>
notScopeVars == <<batchVars, retryVars, authVars, chainVars, streamVars, clientVars,
    requestVars, tokenVars, cassetteVars, downloadVars, roundtripVars, threadsVars,
    authcodeVars, parityVars, optionVars>>
notStreamVars == <<batchVars, retryVars, authVars, chainVars, clientVars, requestVars,
    tokenVars, cassetteVars, scopeVars, downloadVars, roundtripVars, threadsVars,
    authcodeVars, parityVars, optionVars>>
notDownloadVars == <<batchVars, retryVars, authVars, chainVars, streamVars, clientVars,
    requestVars, tokenVars, cassetteVars, scopeVars, roundtripVars, threadsVars, authcodeVars,
    parityVars, optionVars>>
notRoundtripVars == <<batchVars, retryVars, authVars, chainVars, streamVars, clientVars,
    requestVars, tokenVars, cassetteVars, scopeVars, downloadVars, threadsVars, authcodeVars,
    parityVars, optionVars>>
notThreadsVars == <<batchVars, retryVars, authVars, chainVars, streamVars, clientVars,
    requestVars, tokenVars, cassetteVars, scopeVars, downloadVars, roundtripVars,
    authcodeVars, parityVars, optionVars>>
notAuthcodeVars == <<batchVars, retryVars, authVars, chainVars, streamVars, clientVars,
    requestVars, tokenVars, cassetteVars, scopeVars, downloadVars, roundtripVars, threadsVars,
    parityVars, optionVars>>
notParityVars == <<batchVars, retryVars, authVars, chainVars, streamVars, clientVars,
    requestVars, tokenVars, cassetteVars, scopeVars, downloadVars, roundtripVars, threadsVars,
    authcodeVars, optionVars>>
notOptionVars == <<batchVars, retryVars, authVars, chainVars, streamVars, clientVars,
    requestVars, tokenVars, cassetteVars, scopeVars, downloadVars, roundtripVars, threadsVars,
    authcodeVars, parityVars>>

\* ------------------------------------------------------------------------
\* Bounds of the model
\* ------------------------------------------------------------------------
MaxTasks == 3        \* tasks submitted to one BatchClient
MaxConcurrent == 2   \* largest max_concurrent tried
MaxGathers == 2      \* gather() calls on one BatchClient
MaxRetries == 2      \* largest max_retries tried
NumCallers == 3      \* concurrent apply_auth_async calls on one adapter
MaxTicks == 2        \* clock steps during the calls
MaxChain == 3        \* longest middleware chain tried
MaxChunks == 2       \* chunks in a streamed response body
MaxCloses == 3       \* calls of a wrapper's close() / aclose()
MaxRequests == 2     \* requests made through one wrapper
MaxSigns == 3        \* synchronous apply_auth calls on one adapter
MaxHalfTicks == 4    \* half-buffer steps of the clock in the synchronous path
MaxInteractions == 2 \* interactions in a loaded cassette
MaxCassetteOps == 3  \* operations performed on one cassette client
NumManagers == 2     \* BatchContextManager objects made for one client
MaxBatchTasks == 2   \* tasks held by one manager's BatchClient
MaxInvocations == 3  \* calls of client._make_request by the caller
MaxBatchGathers == 2 \* calls of gather() on the managers' BatchClients
MaxRoundtripOps == 4 \* operations on one cassette path
NumThreads == 2      \* threads calling apply_auth on one adapter
MaxNesting == 2      \* depth of lists and dicts in the data given to serialize_option_dict


\* ========================================================================
\* batch.py
\* ========================================================================

\* What a task does when awaited.
TaskKinds == {"plain", "response", "returns_error", "raises_api", "raises_other"}

NoResult == [type |-> "none", value |-> 0, meta |-> "none", msg |-> "", cause |-> 0]

\* `await task()` (batch.py:58): the task returns an object or raises one.
\* A plain value, an ApiResponse and an ApiError object carry the identity of
\* the task that produced them.
RunTask(task) ==
    CASE task.kind = "plain"         -> [how |-> "return", class |-> "plain",       id |-> task.id]
      [] task.kind = "response"      -> [how |-> "return", class |-> "ApiResponse", id |-> task.id]
      [] task.kind = "returns_error" -> [how |-> "return", class |-> "ApiError",    id |-> task.id]
      [] task.kind = "raises_api"    -> [how |-> "raise",  class |-> "ApiError",    id |-> task.id]
      [] task.kind = "raises_other"  -> [how |-> "raise",  class |-> "Exception",   id |-> task.id]

\* Mutant of Normalize: only ApiError is caught, any other exception escapes.
NormalizeUncaught(out) ==
    IF out.how = "return"
    THEN IF out.class \in {"ApiResponse", "ApiError"}
         THEN [how |-> "return",
               res |-> [type |-> out.class, value |-> out.id, meta |-> "task", msg |-> "", cause |-> 0]]
         ELSE [how |-> "return",
               res |-> [type |-> "ApiResponse", value |-> out.id, meta |-> "BATCH_NO_RESPONSE",
                        msg |-> "", cause |-> 0]]
    ELSE IF out.class = "ApiError"
         THEN [how |-> "return",
               res |-> [type |-> "ApiError", value |-> out.id, meta |-> "task", msg |-> "", cause |-> 0]]
         ELSE [how |-> "raise", res |-> NoResult]

\* execute_with_semaphore, the try/except around `await task()`
\* (batch.py:57-77): the raw outcome becomes a BatchResult.
Normalize(out) ==
    IF out.how = "return"
    THEN IF out.class \in {"ApiResponse", "ApiError"}
         THEN \* already an ApiResponse or ApiError: returned as it is
              [how |-> "return",
               res |-> [type |-> out.class, value |-> out.id, meta |-> "task", msg |-> "", cause |-> 0]]
         ELSE \* wrapped with placeholder metadata (status 200, BATCH_NO_RESPONSE)
              [how |-> "return",
               res |-> [type |-> "ApiResponse", value |-> out.id, meta |-> "BATCH_NO_RESPONSE",
                        msg |-> "", cause |-> 0]]
    ELSE IF out.class = "ApiError"
         THEN \* except Exception: an ApiError is returned as the result
              [how |-> "return",
               res |-> [type |-> "ApiError", value |-> out.id, meta |-> "task", msg |-> "", cause |-> 0]]
         ELSE \* any other Exception is wrapped, the original kept as cause
              [how |-> "return",
               res |-> [type |-> "ApiError", value |-> 0, meta |-> "none",
                        msg |-> "Unexpected error in batch operation", cause |-> out.id]]

\* Mutant of SemLocked: the slot is taken without looking at the semaphore.
SemLockedNever(value, waiting) == FALSE

\* asyncio.Semaphore.locked() as `async with self._semaphore` (batch.py:56)
\* consults it: no free slot, or an earlier task is already waiting for one.
SemLocked(value, waiting) == value = 0 \/ waiting # {}

\* Mutant of GatherResults: results in the order the tasks completed.
GatherResultsByCompletion(res, done) == [k \in 1..Len(done) |-> res[done[k]]]

\* asyncio.gather(*[execute_with_semaphore(task) for task in self._tasks])
\* (batch.py:80-85): one result per awaitable, at the awaitable's position.
GatherResults(res, done) == [i \in 1..Len(res) |-> res[i]]

Waiting == {i \in DOMAIN tstate : tstate[i] = "waiting"}
Running == {i \in DOMAIN tstate : tstate[i] = "running"}
SetMin(S) == CHOOSE x \in S : \A y \in S : x <= y

BatchInit ==
    /\ max_concurrent \in 0..MaxConcurrent   \* asyncio.Semaphore rejects a negative value
    /\ tasks = <<>>
    /\ semaphore = max_concurrent
    /\ nextId = 1
    /\ gpc = "idle"
    /\ tstate = <<>>
    /\ tresult = <<>>
    /\ completed = <<>>
    /\ gresults = <<>>
    /\ gathers = 0

\* BatchClient.add_task (batch.py:38-40)
AddTask(kind) ==
    /\ gpc \in {"idle", "returned"}
    /\ nextId <= MaxTasks
    /\ tasks' = Append(tasks, [kind |-> kind, id |-> nextId])
    /\ nextId' = nextId + 1
    /\ UNCHANGED <<max_concurrent, semaphore, gpc, tstate, tresult, completed, gresults, gathers>>
    /\ UNCHANGED notBatchVars

\* BatchClient.clear (batch.py:115-117)
Clear ==
    /\ gpc \in {"idle", "returned"}
    /\ tasks # <<>>
    /\ tasks' = <<>>
    /\ UNCHANGED <<max_concurrent, semaphore, nextId, gpc, tstate, tresult, completed, gresults, gathers>>
    /\ UNCHANGED notBatchVars

\* gather() is called (batch.py:42-50, 80-83): an empty queue returns [] at
\* once, otherwise one execute_with_semaphore coroutine per queued task is
\* handed to asyncio.gather.
GatherStart ==
    /\ gpc \in {"idle", "returned"}
    /\ gathers < MaxGathers
    /\ gathers' = gathers + 1
    /\ completed' = <<>>
    /\ IF tasks = <<>>
       THEN /\ gpc' = "returned"
            /\ gresults' = <<>>
            /\ tstate' = <<>>
            /\ tresult' = <<>>
       ELSE /\ gpc' = "running"
            /\ gresults' = <<>>
            /\ tstate' = [i \in 1..Len(tasks) |-> "created"]
            /\ tresult' = [i \in 1..Len(tasks) |-> NoResult]
    /\ UNCHANGED <<max_concurrent, tasks, semaphore, nextId>>
    /\ UNCHANGED notBatchVars

\* First step of the i-th coroutine: `async with self._semaphore`
\* (batch.py:56). The event loop starts the coroutines in list order.
TaskAcquire(i) ==
    /\ gpc = "running"
    /\ tstate[i] = "created"
    /\ \A j \in 1..(i - 1) : tstate[j] # "created"
    /\ IF SemLocked(semaphore, Waiting)
       THEN /\ tstate' = [tstate EXCEPT ![i] = "waiting"]
            /\ UNCHANGED semaphore
       ELSE /\ tstate' = [tstate EXCEPT ![i] = "running"]
            /\ semaphore' = semaphore - 1
    /\ UNCHANGED <<max_concurrent, tasks, nextId, gpc, tresult, completed, gresults, gathers>>
    /\ UNCHANGED notBatchVars

\* The i-th task finishes (batch.py:57-77) and leaves `async with`
\* (release): the freed slot goes to the longest-waiting coroutine, if any.
\* An exception that execute_with_semaphore lets through ends gather(),
\* because asyncio.gather was called with return_exceptions=False.
TaskFinish(i) ==
    /\ gpc = "running"
    /\ tstate[i] = "running"
    /\ LET r == Normalize(RunTask(tasks[i]))
           w == Waiting
       IN  /\ tresult' = [tresult EXCEPT ![i] = r.res]
           /\ completed' = Append(completed, i)
           /\ IF w = {}
              THEN /\ semaphore' = semaphore + 1
                   /\ tstate' = [tstate EXCEPT ![i] = "done"]
              ELSE /\ semaphore' = semaphore
                   /\ tstate' = [tstate EXCEPT ![i] = "done", ![SetMin(w)] = "running"]
           /\ gpc' = IF r.how = "raise" THEN "raised" ELSE gpc
    /\ UNCHANGED <<max_concurrent, tasks, nextId, gresults, gathers>>
    /\ UNCHANGED notBatchVars

\* Variant of GatherReturn: the queue is emptied when the results are handed
\* back.
GatherReturnClears ==
    /\ gpc = "running"
    /\ \A i \in 1..Len(tasks) : tstate[i] = "done"
    /\ gresults' = [i \in 1..Len(tresult) |-> tresult[i]]
    /\ gpc' = "returned"
    /\ tasks' = <<>>
    /\ UNCHANGED <<max_concurrent, semaphore, nextId, tstate, tresult, completed, gathers>>
    /\ UNCHANGED notBatchVars

\* asyncio.gather completes once every coroutine has returned
\* (batch.py:80-85).
GatherReturn ==
    /\ gpc = "running"
    /\ \A i \in 1..Len(tasks) : tstate[i] = "done"
    /\ gresults' = GatherResults(tresult, completed)
    /\ gpc' = "returned"
    /\ UNCHANGED <<max_concurrent, tasks, semaphore, nextId, tstate, tresult, completed, gathers>>
    /\ UNCHANGED notBatchVars

BatchNext ==
    \/ \E kind \in TaskKinds : AddTask(kind)
    \/ Clear
    \/ GatherStart
    \/ \E i \in 1..Len(tasks) : TaskAcquire(i)
    \/ \E i \in 1..Len(tasks) : TaskFinish(i)
    \/ GatherReturn

BatchPark ==
    /\ max_concurrent = 0 /\ tasks = <<>> /\ semaphore = 0 /\ nextId = 1 /\ gpc = "idle"
    /\ tstate = <<>> /\ tresult = <<>> /\ completed = <<>> /\ gresults = <<>> /\ gathers = 0


\* ------------------------------------------------------------------------
\* Properties of BatchClient
\* ------------------------------------------------------------------------

\* A step in which a gather() call returns its list.
GatherReturns == gpc' = "returned" /\ (gpc = "running" \/ gathers' # gathers)

\* C1: gather() returns exactly one result per queued task, and the result
\* at index i is the outcome of the i-th submitted task, whatever the order
\* in which the tasks completed.
C1_GatherOrder ==
    [][GatherReturns =>
          /\ Len(gresults') = Len(tasks)
          /\ \A i \in 1..Len(tasks) : gresults'[i] = Normalize(RunTask(tasks[i])).res]_vars

\* gather() has returned three results although the second task completed
\* first and the first one last.
C1_Witness ==
    /\ gpc = "returned"
    /\ Len(tasks) = 3
    /\ Len(gresults) = 3
    /\ completed = <<2, 3, 1>>
    /\ tasks[1].kind # tasks[3].kind

\* C2: during gather() on a BatchClient(max_concurrent = K), never more than
\* K tasks are between acquiring and releasing their semaphore slot.
C2_ConcurrencyBound == Cardinality(Running) <= max_concurrent

\* More tasks than slots: every slot is taken and a task is waiting.
C2_Witness ==
    /\ gpc = "running"
    /\ max_concurrent >= 1
    /\ Len(tasks) > max_concurrent
    /\ Cardinality(Running) = max_concurrent
    /\ Waiting # {}

\* The result gather() must report for a task, written out per kind of task.
ExpectedResult(task) ==
    CASE task.kind = "raises_other" ->
             [type |-> "ApiError", value |-> 0, meta |-> "none",
              msg |-> "Unexpected error in batch operation", cause |-> task.id]
      [] task.kind \in {"raises_api", "returns_error"} ->
             [type |-> "ApiError", value |-> task.id, meta |-> "task", msg |-> "", cause |-> 0]
      [] task.kind = "response" ->
             [type |-> "ApiResponse", value |-> task.id, meta |-> "task", msg |-> "", cause |-> 0]
      [] task.kind = "plain" ->
             [type |-> "ApiResponse", value |-> task.id, meta |-> "BATCH_NO_RESPONSE",
              msg |-> "", cause |-> 0]

\* C3: a task that raises a non-ApiError exception yields at its own index a
\* generic ApiError whose cause is that exception, a task that raises an
\* ApiError yields that same ApiError at its index, gather() itself does not
\* raise, and every other task has run to completion and reports its own
\* outcome.
C3_PartialFailure ==
    [][/\ gpc' # "raised"
       /\ GatherReturns =>
             /\ \A i \in DOMAIN tstate' : tstate'[i] = "done"
             /\ \A i \in 1..Len(tasks) : gresults'[i] = ExpectedResult(tasks[i])]_vars

\* gather() has returned with a wrapped plain exception, a raised ApiError
\* and a successful sibling side by side.
C3_Witness ==
    /\ gpc = "returned"
    /\ Len(gresults) = 3
    /\ Len(tasks) = 3
    /\ \E i, j, k \in 1..3 :
          /\ tasks[i].kind = "raises_other" /\ gresults[i].cause = tasks[i].id
          /\ tasks[j].kind = "raises_api" /\ gresults[j].type = "ApiError"
          /\ tasks[k].kind = "plain" /\ gresults[k].type = "ApiResponse"

\* C35: on a BatchClient whose construction succeeded, a gather() whose
\* tasks all finish once they are run eventually returns.  Stated under
\* SpecBatchFair, where the event loop keeps running every coroutine that
\* can take a step.
C35_GatherTerminates == (gpc = "running") ~> (gpc = "returned")

\* C38: gather() leaves the pending queue as it is, and every gather() that
\* returns, the second like the first, has run each queued task once.
C38_QueueKept ==
    [][ /\ (gpc = "running" \/ gpc' = "running") => tasks' = tasks
        /\ GatherReturns => /\ Len(completed') = Len(tasks')
                            /\ {completed'[k] : k \in 1..Len(completed')} = 1..Len(tasks') ]_vars

\* A second gather() has returned after running a full queue again.
C38_Witness ==
    /\ gathers = 2
    /\ gpc = "returned"
    /\ Len(tasks) = MaxTasks
    /\ Len(completed) = MaxTasks
    /\ Len(gresults) = MaxTasks

\* ========================================================================
\* middleware.py: RetryMiddleware
\* ========================================================================

\* RetryMiddleware.IDEMPOTENT_METHODS (middleware.py:138)
IDEMPOTENT_METHODS == {"GET", "HEAD", "OPTIONS", "PUT", "DELETE", "TRACE"}

\* The default of retry_status_codes (middleware.py:147)
DefaultRetryCodes == {429, 502, 503, 504}

\* The backoff cap of 30.0 seconds (middleware.py:180), in milliseconds
BackoffCapMs == 30000

\* Request methods, constructor arguments and outcomes of next_call tried.
Methods == {"GET", "POST", "DELETE"}
Statuses == {200, 404, 500, 503}
CodesArgs == {[given |-> FALSE, codes |-> {}],
              [given |-> TRUE, codes |-> {}],
              [given |-> TRUE, codes |-> {500}]}
BackoffFactors == {500, 20000}
\* next_call returns a response or raises httpx.RequestError
Outcomes == [kind : {"response"}, status : Statuses]
              \cup {[kind |-> "RequestError", status |-> 0]}

NoOutcome == [out |-> [kind |-> "none", status |-> 0], at |-> 0]

Min(a, b) == IF a <= b THEN a ELSE b

RECURSIVE Pow2(_)
Pow2(n) == IF n = 0 THEN 1 ELSE 2 * Pow2(n - 1)

\* `retry_status_codes or {429, 502, 503, 504}` (middleware.py:147): None and
\* the empty set are both falsy.
EffectiveCodes(arg) ==
    IF ~arg.given \/ arg.codes = {} THEN DefaultRetryCodes ELSE arg.codes

\* Mutant of RetryDecision: the last attempt is followed by a backoff too.
RetryDecisionSleepLast(out, att) ==
    IF out.kind = "response"
    THEN IF out.status \notin retry_status_codes THEN "return" ELSE "retry"
    ELSE IF method \notin IDEMPOTENT_METHODS THEN "raise" ELSE "retry"

\* Mutant of RetryDecision: every error status is retried.
RetryDecisionAnyError(out, att) ==
    IF out.kind = "response"
    THEN IF att = max_retries \/ out.status < 400 THEN "return" ELSE "retry"
    ELSE IF method \notin IDEMPOTENT_METHODS \/ att = max_retries THEN "raise" ELSE "retry"

\* Mutant of RetryDecision: the loop gives up one attempt early.
RetryDecisionOneShort(out, att) ==
    IF out.kind = "response"
    THEN IF att + 1 >= max_retries \/ out.status \notin retry_status_codes
         THEN "return" ELSE "retry"
    ELSE IF method \notin IDEMPOTENT_METHODS \/ att + 1 >= max_retries THEN "raise" ELSE "retry"

\* Mutant of RetryDecision: network failures are retried for every method.
RetryDecisionAnyMethod(out, att) ==
    IF out.kind = "response"
    THEN IF att = max_retries \/ out.status \notin retry_status_codes
         THEN "return" ELSE "retry"
    ELSE IF att = max_retries THEN "raise" ELSE "retry"

\* The body of one loop iteration of handle() (middleware.py:157-176): what
\* happens with the outcome of next_call at attempt att.
RetryDecision(out, att) ==
    IF out.kind = "response"
    THEN IF att = max_retries \/ out.status \notin retry_status_codes
         THEN "return" ELSE "retry"
    ELSE IF method \notin IDEMPOTENT_METHODS \/ att = max_retries THEN "raise" ELSE "retry"

\* Mutant of BackoffTemp: the backoff is not capped.
BackoffTempUncapped(att) == backoff_factor * Pow2(att)

\* temp = min(self.backoff_factor * (2**attempt), 30.0) (middleware.py:180)
BackoffTemp(att) == Min(backoff_factor * Pow2(att), BackoffCapMs)

\* random.uniform(0, temp / 2) (middleware.py:181): both ends and the middle
Jitters(temp) == {0, temp \div 4, temp \div 2}

RetryInit ==
    /\ max_retries \in 0..MaxRetries
    /\ retry_codes_arg \in CodesArgs
    /\ retry_status_codes = EffectiveCodes(retry_codes_arg)
    /\ backoff_factor \in BackoffFactors
    /\ method \in Methods
    /\ script \in [1..(max_retries + 1) -> Outcomes]
    /\ rpc = "call"
    /\ attempt = 0
    /\ last_exception = NoOutcome
    /\ calls = 0
    /\ sleeps = 0
    /\ sleep_duration = 0
    /\ retry_log = <<>>
    /\ retry_result = NoOutcome

\* One pass through the try block (middleware.py:157-176): next_call is
\* awaited and its outcome either ends handle() or leads to the backoff.
RetryCall ==
    /\ rpc = "call"
    /\ LET out == script[attempt + 1]
           got == [out |-> out, at |-> attempt + 1]
           d == RetryDecision(out, attempt)
       IN  /\ calls' = calls + 1
           /\ IF d = "retry"
              THEN /\ last_exception' = got
                   /\ rpc' = "backoff"
                   /\ UNCHANGED retry_result
              ELSE /\ last_exception' = IF out.kind = "response" THEN last_exception ELSE got
                   /\ rpc' = IF d = "return" THEN "returned" ELSE "raised"
                   /\ retry_result' = got
    /\ UNCHANGED <<max_retries, retry_codes_arg, retry_status_codes, backoff_factor, method,
                   script, attempt, sleeps, sleep_duration, retry_log>>
    /\ UNCHANGED notRetryVars

\* The backoff (middleware.py:178-186) and the step to the next iteration;
\* after the last iteration the code below the loop (middleware.py:190-192)
\* returns or raises last_exception.
RetryBackoff(jitter) ==
    /\ rpc = "backoff"
    /\ sleep_duration' = BackoffTemp(attempt) \div 2 + jitter
    /\ retry_log' = Append(retry_log, attempt + 1)
    /\ sleeps' = sleeps + 1
    /\ attempt' = attempt + 1
    /\ IF attempt + 1 <= max_retries
       THEN /\ rpc' = "call"
            /\ UNCHANGED retry_result
       ELSE /\ rpc' = IF last_exception.out.kind = "response" THEN "returned" ELSE "raised"
            /\ retry_result' = last_exception
    /\ UNCHANGED <<max_retries, retry_codes_arg, retry_status_codes, backoff_factor, method,
                   script, last_exception, calls>>
    /\ UNCHANGED notRetryVars

RetryNext ==
    \/ RetryCall
    \/ \E jitter \in Jitters(BackoffTemp(attempt)) : RetryBackoff(jitter)

\* ------------------------------------------------------------------------
\* Properties of RetryMiddleware.handle
\* ------------------------------------------------------------------------

RetryDone == rpc \in {"returned", "raised"}

\* next_call's k-th outcome is a response with a retry-eligible status.
Eligible(k) == script[k].kind = "response" /\ script[k].status \in retry_status_codes

\* Number of retry-eligible responses next_call gives before anything else.
LeadingEligible == Cardinality({k \in DOMAIN script : \A j \in 1..k : Eligible(j)})

\* C4: when next_call returns N <= max_retries retry-eligible responses and
\* then a response whose status is not retry-eligible, next_call is invoked
\* exactly N + 1 times and that last response is returned; a non-eligible
\* first response means exactly one invocation.
C4_RetryUntilNotEligible ==
    LET n == LeadingEligible IN
    (n <= max_retries /\ script[n + 1].kind = "response") =>
        /\ calls <= n + 1
        /\ RetryDone =>
              /\ rpc = "returned"
              /\ calls = n + 1
              /\ retry_result = [out |-> script[n + 1], at |-> n + 1]

\* Two retry-eligible responses, then a 200 returned by the third invocation.
C4_Witness ==
    /\ rpc = "returned"
    /\ max_retries = 2
    /\ LeadingEligible = 2
    /\ calls = 3
    /\ retry_result.out.status = 200

\* C5: when every attempt returns a retry-eligible status, next_call is
\* invoked exactly max_retries + 1 times, handle() then ends, and the
\* response of the last attempt is returned.
C5_RetryExhausted ==
    (\A k \in DOMAIN script : Eligible(k)) =>
        /\ calls <= max_retries + 1
        /\ ~RetryDone => ENABLED RetryNext
        /\ RetryDone =>
              /\ rpc = "returned"
              /\ calls = max_retries + 1
              /\ retry_result = [out |-> script[max_retries + 1], at |-> max_retries + 1]
              /\ ~ENABLED RetryNext

\* Three retry-eligible responses with max_retries = 2: the third is returned.
C5_Witness ==
    /\ rpc = "returned"
    /\ max_retries = 2
    /\ \A k \in DOMAIN script : Eligible(k)
    /\ calls = 3
    /\ retry_result.at = 3

\* C6: a transport failure raised by next_call is re-raised at once, with no
\* backoff sleep after it, if the method is not idempotent (a failing first
\* attempt: exactly one invocation, no sleep at all); for an idempotent
\* method it is retried, and if every attempt fails the failure of the final
\* attempt is re-raised after exactly max_retries + 1 invocations.
C6_NetworkFailure ==
    /\ method \notin IDEMPOTENT_METHODS =>
          /\ (calls >= 1 /\ script[calls].kind = "RequestError") =>
                 /\ rpc = "raised"
                 /\ retry_result = [out |-> script[calls], at |-> calls]
                 /\ sleeps = calls - 1
          /\ script[1].kind = "RequestError" => (calls <= 1 /\ sleeps = 0)
    /\ method \in IDEMPOTENT_METHODS =>
          /\ rpc = "raised" => calls = max_retries + 1
          /\ (\A k \in DOMAIN script : script[k].kind = "RequestError") =>
                 /\ calls <= max_retries + 1
                 /\ RetryDone =>
                       /\ rpc = "raised"
                       /\ calls = max_retries + 1
                       /\ sleeps = max_retries
                       /\ retry_result = [out |-> script[max_retries + 1], at |-> max_retries + 1]

\* A GET whose three attempts all fail: the third failure is raised.
C6_Witness ==
    /\ method = "GET"
    /\ max_retries = 2
    /\ \A k \in DOMAIN script : script[k].kind = "RequestError"
    /\ rpc = "raised"
    /\ calls = 3
    /\ retry_result.at = 3

\* A POST whose first attempt fails: raised after one invocation.
C6_WitnessNonIdempotent ==
    /\ method = "POST"
    /\ max_retries = 2
    /\ script[1].kind = "RequestError"
    /\ rpc = "raised"
    /\ calls = 1
    /\ sleeps = 0

\* C27: the backoff sleep after the attempt with zero-based index i lies
\* in [temp/2, temp] with temp = min(backoff_factor * 2^i, 30 s); no sleep
\* is longer than 30 seconds.
C27_BackoffRange ==
    sleeps >= 1 =>
        LET i == attempt - 1
            raw == backoff_factor * Pow2(i)
            temp == IF raw <= BackoffCapMs THEN raw ELSE BackoffCapMs
        IN  /\ 2 * sleep_duration >= temp
            /\ sleep_duration <= temp
            /\ sleep_duration <= BackoffCapMs

\* The second backoff of a middleware with a backoff factor of 20 s: the
\* cap applies and the largest jitter gives a sleep of exactly 30 s.
C27_Witness ==
    /\ backoff_factor = 20000
    /\ sleeps = 2
    /\ attempt = 2
    /\ sleep_duration = BackoffCapMs

\* C28: for every set S passed as retry_status_codes, the response of an
\* attempt that is not the last is retried if and only if its status is in
\* S; a status of the default set that is not in S is returned without a
\* retry.
C28_CustomCodesOnly ==
    [][(/\ rpc = "call"
        /\ retry_codes_arg.given
        /\ attempt < max_retries
        /\ script[attempt + 1].kind = "response"
        /\ calls' = calls + 1) =>
          /\ rpc' = "backoff" <=> script[attempt + 1].status \in retry_codes_arg.codes
          /\ rpc' = "returned" <=> script[attempt + 1].status \notin retry_codes_arg.codes]_vars

\* C33: handle() sleeps exactly once between two consecutive attempts and
\* never after the attempt whose result it returns or re-raises: a call
\* that made k attempts slept k - 1 times and logged k - 1 retry messages,
\* numbered 1..k-1.
C33_SleepsBetweenAttempts ==
    /\ sleeps = Len(retry_log)
    /\ \A i \in 1..Len(retry_log) : retry_log[i] = i
    /\ rpc = "call" => sleeps = calls
    /\ rpc = "backoff" => sleeps = calls - 1
    /\ RetryDone => sleeps = calls - 1

\* Three attempts, the last one raised: two sleeps and the log lines 1, 2.
C33_Witness ==
    /\ rpc = "raised"
    /\ calls = 3
    /\ sleeps = 2
    /\ retry_log = <<1, 2>>

RetryPark ==
    /\ max_retries = 0 /\ retry_codes_arg = [given |-> FALSE, codes |-> {}]
    /\ retry_status_codes = DefaultRetryCodes /\ backoff_factor = 500 /\ method = "GET"
    /\ script = <<>> /\ rpc = "parked" /\ attempt = 0 /\ last_exception = NoOutcome
    /\ calls = 0 /\ sleeps = 0 /\ sleep_duration = 0 /\ retry_log = <<>>
    /\ retry_result = NoOutcome

\* ========================================================================
\* auth.py: AuthToken and the OAuth2 adapters (asynchronous path)
\* ========================================================================

\* The clock-skew buffer of AuthToken.is_expired, in seconds (auth.py:40)
ExpiryBuffer == 60

\* expires_in = None (auth.py:20)
NoExpiry == -1

\* expires_in values tried: none, and lifetimes around the buffer
ExpiresChoices == {NoExpiry, 60, 120, 3600}

Callers == 1..NumCallers

NoToken == [present |-> FALSE, id |-> 0, expires_in |-> NoExpiry, created |-> 0, refresh |-> FALSE]

\* Mutant of IsExpired: expiry without the clock-skew buffer.
IsExpiredNoBuffer(tok, t) ==
    IF tok.expires_in = NoExpiry
    THEN FALSE
    ELSE t - tok.created >= tok.expires_in

\* AuthToken.is_expired (auth.py:32-40)
IsExpired(tok, t) ==
    IF tok.expires_in = NoExpiry
    THEN FALSE
    ELSE t - tok.created >= tok.expires_in - ExpiryBuffer

\* Mutant of TokenValid: the cached token is never used.
TokenValidNever(tok, t) == FALSE

\* `self._token and not self._token.is_expired` (auth.py:215, 241) and
\* `not self._token.is_expired` (auth.py:410)
TokenValid(tok, t) == tok.present /\ ~IsExpired(tok, t)

\* Whether a caller holding the lock with a stale token can ask for a new one:
\* always for client credentials (auth.py:244-251), with a refresh token for
\* the authorization-code adapter (auth.py:413-416).
CanRequest(tok) == adapter = "client_credentials" \/ tok.refresh

\* Mutant of LockFree: the lock never makes a caller wait.
LockFreeAlways(owner, waiters) == TRUE

\* asyncio.Lock.acquire as `async with self._token_lock` (auth.py:240, 409)
\* uses it: the lock is taken at once only if nobody holds or awaits it.
LockFree(owner, waiters) == owner = 0 /\ waiters = <<>>

AuthInit ==
    /\ adapter \in {"client_credentials", "authorization_code"}
    /\ token \in IF adapter = "client_credentials"
                 THEN {NoToken}                                  \* auth.py:188
                 ELSE {[present |-> TRUE, id |-> 0, expires_in |-> e, created |-> 0,
                        refresh |-> r] : e \in ExpiresChoices, r \in BOOLEAN}  \* auth.py:311-315
    /\ token_lock = 0
    /\ lock_waiters = <<>>
    /\ apc = [c \in Callers |-> "idle"]
    /\ signed = [c \in Callers |-> -1]
    /\ posts = 0
    /\ now = 0
    /\ burst = TRUE

\* Leaving `async with self._token_lock`: the lock goes to the first waiter,
\* which resumes later. pcs is the position map with the leaver's own new
\* position already in it.
ReleaseLock(pcs) ==
    IF lock_waiters = <<>>
    THEN /\ token_lock' = 0
         /\ lock_waiters' = lock_waiters
         /\ apc' = pcs
    ELSE /\ token_lock' = Head(lock_waiters)
         /\ lock_waiters' = Tail(lock_waiters)
         /\ apc' = [pcs EXCEPT ![Head(lock_waiters)] = "locked"]

\* Caller c holds the lock and runs the body of _get_valid_token_async up to
\* its first await or its end (auth.py:241-250 and 410-416; then 272-273 or
\* 426-427 when a token is returned).
HoldAndCheck(c) ==
    IF TokenValid(token, now)
    THEN \* the cached token is returned and the request is signed with it
         /\ signed' = [signed EXCEPT ![c] = token.id]
         /\ ReleaseLock([apc EXCEPT ![c] = "done"])
         /\ UNCHANGED <<token, posts>>
    ELSE IF CanRequest(token)
    THEN \* the token request is sent; the lock is kept while it is awaited
         /\ posts' = posts + 1
         /\ apc' = [apc EXCEPT ![c] = "posting"]
         /\ token_lock' = c
         /\ UNCHANGED <<token, signed, lock_waiters>>
    ELSE \* RuntimeError: access token is expired and no refresh token available
         /\ ReleaseLock([apc EXCEPT ![c] = "failed"])
         /\ UNCHANGED <<token, signed, posts>>

\* apply_auth_async is called (auth.py:270-272, 424-426) and reaches
\* `async with self._token_lock`.
AuthEnter(c) ==
    /\ apc[c] = "idle"
    /\ burst' = (burst /\ ~TokenValid(token, now)
                       /\ \A d \in Callers : apc[d] \notin {"done", "failed"})
    /\ IF LockFree(token_lock, lock_waiters)
       THEN HoldAndCheck(c)
       ELSE /\ lock_waiters' = Append(lock_waiters, c)
            /\ apc' = [apc EXCEPT ![c] = "waiting"]
            /\ UNCHANGED <<token, token_lock, signed, posts>>
    /\ UNCHANGED <<adapter, now>>
    /\ UNCHANGED notAuthVars

\* A caller that was handed the lock resumes inside `async with`.
AuthResume(c) ==
    /\ apc[c] = "locked"
    /\ HoldAndCheck(c)
    /\ UNCHANGED <<adapter, now, burst>>
    /\ UNCHANGED notAuthVars

\* The token endpoint answers with a token (auth.py:251-262, 384-395): it
\* replaces the cached one and signs the caller's request.
AuthTokenResponse(c, e) ==
    /\ apc[c] = "posting"
    /\ token' = [present |-> TRUE, id |-> posts, expires_in |-> e, created |-> now,
                 refresh |-> token.refresh]
    /\ signed' = [signed EXCEPT ![c] = posts]
    /\ ReleaseLock([apc EXCEPT ![c] = "done"])
    /\ UNCHANGED <<adapter, posts, now, burst>>
    /\ UNCHANGED notAuthVars

\* Variant of AuthTokenFailure: the exception leaves the lock held.
AuthTokenFailureKeepsLock(c) ==
    /\ apc[c] = "posting"
    /\ apc' = [apc EXCEPT ![c] = "failed"]
    /\ UNCHANGED <<adapter, token, token_lock, lock_waiters, signed, posts, now, burst>>
    /\ UNCHANGED notAuthVars

\* The token request fails: a transport failure out of post(), or an error
\* status out of raise_for_status() (auth.py:246-251, 379-384). The exception
\* leaves `async with` and apply_auth_async.
AuthTokenFailure(c) ==
    /\ apc[c] = "posting"
    /\ ReleaseLock([apc EXCEPT ![c] = "failed"])
    /\ UNCHANGED <<adapter, token, signed, posts, now, burst>>
    /\ UNCHANGED notAuthVars

\* Time passes.
AuthTick ==
    /\ now < MaxTicks * ExpiryBuffer
    /\ now' = now + ExpiryBuffer
    /\ UNCHANGED <<adapter, token, token_lock, lock_waiters, apc, signed, posts, burst>>
    /\ UNCHANGED notAuthVars

AuthNext ==
    \/ \E c \in Callers : AuthEnter(c)
    \/ \E c \in Callers : AuthResume(c)
    \/ \E c \in Callers, e \in ExpiresChoices : AuthTokenResponse(c, e)
    \/ \E c \in Callers : AuthTokenFailure(c)
    \/ AuthTick

\* ------------------------------------------------------------------------
\* Properties of the asynchronous OAuth2 signing
\* ------------------------------------------------------------------------

Entered == {c \in Callers : apc[c] # "idle"}
Finished == {c \in Callers : apc[c] \in {"done", "failed"}}

C37_FailureLeavesCache ==
    /\ [](token_lock # 0 => apc[token_lock] \in {"posting", "locked"})
    /\ [](\A c \in Callers : apc[c] = "failed" => signed[c] = -1)
    /\ [][ \A c \in Callers :
              /\ (apc[c] = "posting" /\ apc'[c] = "failed") =>
                    /\ token' = token
                    /\ token_lock' # c
              /\ (/\ apc[c] \in {"idle", "locked"}
                  /\ apc'[c] \notin {"idle", "locked", "waiting"}
                  /\ ~TokenValid(token, now)
                  /\ CanRequest(token)) =>
                    /\ apc'[c] = "posting"
                    /\ posts' = posts + 1 ]_vars

\* A token request failed, and a later caller sent a second one and signed
\* with the token it returned.
C37_Witness ==
    \E c, d \in Callers :
        /\ apc[c] = "failed" /\ signed[c] = -1
        /\ apc[d] = "done" /\ signed[d] = 2
        /\ posts = 2
        /\ token.present /\ token.id = 2
        /\ token_lock = 0

AuthPark ==
    /\ adapter = "client_credentials" /\ token = NoToken /\ token_lock = 0
    /\ lock_waiters = <<>> /\ apc = [c \in Callers |-> "idle"]
    /\ signed = [c \in Callers |-> -1] /\ posts = 0 /\ now = 0 /\ burst = TRUE

\* ========================================================================
\* middleware.py: SyncMiddlewareChain and AsyncMiddlewareChain
\* ========================================================================
\* The chain holds middleware that forward to their continuation once, as
\* SyncLoggingMiddleware and AsyncLoggingMiddleware do (middleware.py:74-98,
\* 107-131): logic before next_call, next_call, logic after it.

\* Mutant of NextIndex: the continuation skips a middleware.
NextIndexSkip(index) == index + 2

\* create_handler(middleware_list, index + 1) (middleware.py:219, 252)
NextIndex(index) == index + 1

\* `if index >= len(middleware_list)` (middleware.py:214, 247): the handler
\* past the last middleware performs the transport call.
EndOfChain(index, len) == index >= len

ChainInit ==
    /\ chain_kind \in {"sync", "async"}
    /\ chain_len \in 0..MaxChain
    /\ send_outcome \in Outcomes
    /\ cphase = "down"
    /\ cindex = 0
    /\ cstack = <<>>
    /\ clog = <<>>
    /\ sends = 0
    /\ chain_result = NoOutcome.out

\* handler(req) for an index inside the list (middleware.py:218-220,
\* 251-253): middleware_list[index].handle runs its logic before next_call
\* and calls the handler of the next index. Middleware are named 1..n here,
\* middleware_list[index] being number index + 1.
ChainHandle ==
    /\ cphase = "down"
    /\ ~EndOfChain(cindex, chain_len)
    /\ clog' = Append(clog, <<"pre", cindex + 1>>)
    /\ cstack' = Append(cstack, cindex + 1)
    /\ cindex' = NextIndex(cindex)
    /\ UNCHANGED <<chain_kind, chain_len, send_outcome, cphase, sends, chain_result>>
    /\ UNCHANGED notChainVars

\* handler(req) past the end of the list (middleware.py:214-216, 247-249):
\* transport.send(req). A response travels back up; an exception leaves
\* every handle() on the way, none of which catches it.
ChainSend ==
    /\ cphase = "down"
    /\ EndOfChain(cindex, chain_len)
    /\ clog' = Append(clog, <<"send", 0>>)
    /\ sends' = sends + 1
    /\ IF send_outcome.kind = "response"
       THEN /\ cphase' = "up"
            /\ UNCHANGED <<cstack, chain_result>>
       ELSE /\ cphase' = "failed"
            /\ cstack' = <<>>
            /\ chain_result' = send_outcome
    /\ UNCHANGED <<chain_kind, chain_len, send_outcome, cindex>>
    /\ UNCHANGED notChainVars

\* next_call returns inside the innermost handle() still open, which runs
\* its logic after next_call and returns the response (middleware.py:87-98,
\* 120-131).
ChainUnwind ==
    /\ cphase = "up"
    /\ cstack # <<>>
    /\ clog' = Append(clog, <<"post", cstack[Len(cstack)]>>)
    /\ cstack' = SubSeq(cstack, 1, Len(cstack) - 1)
    /\ UNCHANGED <<chain_kind, chain_len, send_outcome, cphase, cindex, sends, chain_result>>
    /\ UNCHANGED notChainVars

\* execute() returns what the outermost handler returned
\* (middleware.py:224-225, 257-258).
ChainReturn ==
    /\ cphase = "up"
    /\ cstack = <<>>
    /\ cphase' = "returned"
    /\ chain_result' = send_outcome
    /\ UNCHANGED <<chain_kind, chain_len, send_outcome, cindex, cstack, clog, sends>>
    /\ UNCHANGED notChainVars

ChainNext ==
    \/ ChainHandle
    \/ ChainSend
    \/ ChainUnwind
    \/ ChainReturn

\* ------------------------------------------------------------------------
\* Properties of the middleware chains
\* ------------------------------------------------------------------------

\* The onion order for n middleware: pre 1..n, the send, post n..1.
Onion(n) ==
    [k \in 1..(2 * n + 1) |->
        IF k <= n THEN <<"pre", k>>
        ELSE IF k = n + 1 THEN <<"send", 0>>
        ELSE <<"post", 2 * n + 2 - k>>]

IsPrefix(a, b) == Len(a) <= Len(b) /\ \A k \in 1..Len(a) : a[k] = b[k]

\* C8: one execute call of a chain [m1..mn] of forwarding middleware runs
\* the logic before forwarding in the order m1..mn, then performs the
\* transport send exactly once, then runs the logic after forwarding in the
\* order mn..m1; an empty chain performs the send exactly once.
C8_OnionOrder ==
    /\ IsPrefix(clog, Onion(chain_len))
    /\ sends <= 1
    /\ cphase = "returned" =>
          /\ clog = Onion(chain_len)
          /\ sends = 1
          /\ chain_result = send_outcome
    /\ cphase = "failed" =>
          /\ clog = SubSeq(Onion(chain_len), 1, chain_len + 1)
          /\ sends = 1

\* A chain of three middleware has returned: seven events.
C8_Witness ==
    /\ cphase = "returned"
    /\ chain_len = 3
    /\ Len(clog) = 7
    /\ clog[3] = <<"pre", 3>>
    /\ clog[4] = <<"send", 0>>
    /\ clog[5] = <<"post", 3>>

ChainPark ==
    /\ chain_kind = "sync" /\ chain_len = 0 /\ send_outcome = NoOutcome.out
    /\ cphase = "parked" /\ cindex = 0 /\ cstack = <<>> /\ clog = <<>> /\ sends = 0
    /\ chain_result = NoOutcome.out

\* ========================================================================
\* streaming.py: AsyncStreamingClient.stream_request and StreamingResponse
\* ========================================================================

\* The transport answers with a response, or raises httpx.TimeoutException
\* or another httpx.RequestError.
StreamOutcomes == Outcomes \cup {[kind |-> "TimeoutException", status |-> 0]}

\* Variant: a response that never reports itself closed.
IsClosedNever == FALSE

\* StreamingResponse.is_closed (streaming.py:55-58)
IsClosed == sr_closed \/ resp_closed

\* `if response.status_code >= 400` (streaming.py:282)
IsErrorStatus(status) == status >= 400

\* Mutant of FinallyCloses: the response is cleaned up only on an error.
FinallyClosesOnError(how) == how # "normal"

\* try: yield streaming_response / finally: await streaming_response.aclose()
\* (streaming.py:297-301): the finally clause runs however the body ended.
FinallyCloses(how) == TRUE

\* The exception stream_request raises for an exception that arrives in its
\* except clauses (streaming.py:303-315).
ConvertError(err) ==
    CASE err = "TimeoutException" -> "TimeoutError"
      [] err = "RequestError" -> "NetworkError"
      [] OTHER -> err

\* Mutant of ClosesOnEnd: the response is closed only after a clean end.
ClosesOnCleanEnd(err) == err = "none"

\* try: ... finally: await self.aclose() of aiter_bytes, aiter_text,
\* aiter_lines and read_all (streaming.py:65-69, 75-79, 85-94, 131-134): the
\* finally clause runs whether the read came to its end or raised.
ClosesOnEnd(err) == TRUE

\* The body is counted in chunks of 1 MiB: the limit of
\* `len(error_content) <= 1024 * 1024` (streaming.py:288) is one chunk.
ErrorLimitChunks == 1

\* `error_content = await response.aread()` (streaming.py:287): the chunks
\* read from an error response whose body has `size` chunks.
ErrorRead(size) == size

\* The error_data handed to ApplicationError (streaming.py:284-291):
\* response.json() of a body that is not empty and within the limit, absent
\* when the body is empty, too large or not JSON.
ErrorDetails(size) ==
    IF size = 0 \/ size > ErrorLimitChunks THEN {"absent"} ELSE {"absent", "parsed"}

StreamInit ==
    /\ use_middleware \in BOOLEAN
    /\ body_args \in {"none", "json_data", "json_model", "both"}
    /\ stream_outcome \in StreamOutcomes
    /\ chunks_left \in 0..MaxChunks
    /\ spc = "start"
    /\ sexit = "none"
    /\ sr_exists = FALSE
    /\ sr_closed = FALSE
    /\ resp_closed = FALSE
    /\ resp_streamed = FALSE
    /\ sr_closes = 0
    /\ aclose_calls = 0
    /\ error_read = 0
    /\ error_data = "absent"
    /\ iterating = FALSE
    /\ gen_pending = FALSE
    /\ body_err = "none"
    /\ received = 0

\* Mutant of SrClose: every call reaches response.aclose().
SrCloseEveryCall ==
    /\ sr_closed' = TRUE
    /\ resp_closed' = TRUE
    /\ sr_closes' = sr_closes + 1
    /\ aclose_calls' = aclose_calls + 1

\* StreamingResponse.aclose (streaming.py:136-140), as primed values: only
\* the first call reaches response.aclose().
SrClose ==
    /\ sr_closed' = TRUE
    /\ resp_closed' = TRUE
    /\ sr_closes' = IF sr_closed THEN sr_closes ELSE sr_closes + 1
    /\ aclose_calls' = aclose_calls + 1

\* stream_request up to the request being built (streaming.py:226-269).
StreamBuild ==
    /\ spc = "start"
    /\ IF body_args = "both"
       THEN /\ spc' = "left"
            /\ sexit' = "ValueError"
       ELSE /\ spc' = "sending"
            /\ UNCHANGED sexit
    /\ UNCHANGED <<use_middleware, body_args, stream_outcome, chunks_left, sr_exists, sr_closed,
                   resp_closed, resp_streamed, sr_closes, aclose_calls, iterating, gen_pending, body_err,
                   received>>
    /\ UNCHANGED <<error_read, error_data>>
    /\ UNCHANGED notStreamVars

\* The request is executed (streaming.py:271-296, 303-315). Through the
\* middleware chain the transport is asked for an ordinary response, whose
\* body is read and which is closed when send returns; without middleware
\* the response is sent with stream=True and stays open. An error status
\* reads the body with response.aread(), looks for error details in it and
\* raises ApplicationError, which closes the response in the last except
\* clause.
StreamSend ==
    /\ spc = "sending"
    /\ IF stream_outcome.kind # "response"
       THEN /\ spc' = "left"
            /\ sexit' = ConvertError(stream_outcome.kind)
            /\ UNCHANGED <<sr_exists, resp_closed, resp_streamed, chunks_left, error_read,
                           error_data>>
       ELSE IF IsErrorStatus(stream_outcome.status)
       THEN /\ spc' = "left"
            /\ sexit' = "ApplicationError"
            /\ resp_streamed' = ~use_middleware
            /\ resp_closed' = TRUE
            /\ chunks_left' = 0
            /\ error_read' = ErrorRead(chunks_left)
            /\ error_data' \in ErrorDetails(chunks_left)
            /\ UNCHANGED sr_exists
       ELSE /\ spc' = "scope"
            /\ sr_exists' = TRUE
            /\ resp_streamed' = ~use_middleware
            /\ resp_closed' = use_middleware
            /\ chunks_left' = IF use_middleware THEN 0 ELSE chunks_left
            /\ UNCHANGED <<sexit, error_read, error_data>>
    /\ UNCHANGED <<use_middleware, body_args, stream_outcome, sr_closed, sr_closes, aclose_calls, iterating,
                   gen_pending, body_err, received>>
    /\ UNCHANGED notStreamVars

InBody == spc = "scope" /\ body_err = "none"

\* The body starts `async for chunk in response.aiter_bytes()`
\* (streaming.py:60-63).
BodyIterStart ==
    /\ InBody
    /\ ~iterating
    /\ IF IsClosed
       THEN /\ body_err' = "RuntimeError"
            /\ UNCHANGED iterating
       ELSE /\ iterating' = TRUE
            /\ UNCHANGED body_err
    /\ UNCHANGED <<use_middleware, body_args, stream_outcome, chunks_left, spc, sexit, sr_exists,
                   sr_closed, resp_closed, resp_streamed, sr_closes, aclose_calls, gen_pending, received>>
    /\ UNCHANGED <<error_read, error_data>>
    /\ UNCHANGED notStreamVars

\* One chunk is yielded to the body (streaming.py:66-67).
BodyIterNext ==
    /\ InBody
    /\ iterating
    /\ ~resp_closed
    /\ chunks_left > 0
    /\ chunks_left' = chunks_left - 1
    /\ received' = received + 1
    /\ UNCHANGED <<use_middleware, body_args, stream_outcome, spc, sexit, sr_exists, sr_closed,
                   resp_closed, resp_streamed, sr_closes, aclose_calls, iterating, gen_pending, body_err>>
    /\ UNCHANGED <<error_read, error_data>>
    /\ UNCHANGED notStreamVars

\* The iteration ends (streaming.py:66-69): the body is exhausted, or the
\* transport fails while reading; the finally clause closes either way.
BodyIterEnd(err) ==
    /\ InBody
    /\ iterating
    /\ err = "none" => (chunks_left = 0 \/ resp_closed)
    /\ err # "none" => ~resp_closed
    /\ IF ClosesOnEnd(err)
       THEN SrClose
       ELSE UNCHANGED <<sr_closed, resp_closed, sr_closes, aclose_calls>>
    /\ iterating' = FALSE
    /\ body_err' = err
    /\ UNCHANGED <<use_middleware, body_args, stream_outcome, chunks_left, spc, sexit, sr_exists,
                   resp_streamed, gen_pending, received>>
    /\ UNCHANGED <<error_read, error_data>>
    /\ UNCHANGED notStreamVars

\* The body leaves the loop early (break): the suspended generator is left
\* to its finalizer.
BodyIterAbandon ==
    /\ InBody
    /\ iterating
    /\ iterating' = FALSE
    /\ gen_pending' = TRUE
    /\ UNCHANGED <<use_middleware, body_args, stream_outcome, chunks_left, spc, sexit, sr_exists,
                   sr_closed, resp_closed, resp_streamed, sr_closes, aclose_calls, body_err, received>>
    /\ UNCHANGED <<error_read, error_data>>
    /\ UNCHANGED notStreamVars

\* The finalizer of an abandoned generator runs its finally clause
\* (streaming.py:68-69), at a time the event loop chooses.
GenFinalize ==
    /\ gen_pending
    /\ gen_pending' = FALSE
    /\ SrClose
    /\ UNCHANGED <<use_middleware, body_args, stream_outcome, chunks_left, spc, sexit, sr_exists,
                   resp_streamed, iterating, body_err, received>>
    /\ UNCHANGED <<error_read, error_data>>
    /\ UNCHANGED notStreamVars

\* The body calls read_all (streaming.py:126-134).
BodyReadAll(err) ==
    /\ InBody
    /\ ~iterating
    /\ IF IsClosed
       THEN /\ err = "none"
            /\ body_err' = "RuntimeError"
            /\ UNCHANGED <<sr_closed, resp_closed, sr_closes, aclose_calls, chunks_left, received>>
       ELSE /\ IF ClosesOnEnd(err)
               THEN SrClose
               ELSE UNCHANGED <<sr_closed, resp_closed, sr_closes, aclose_calls>>
            /\ body_err' = err
            /\ chunks_left' = IF err = "none" THEN 0 ELSE chunks_left
            /\ received' = IF err = "none" THEN received + chunks_left ELSE received
    /\ UNCHANGED <<use_middleware, body_args, stream_outcome, spc, sexit, sr_exists,
                   resp_streamed, iterating, gen_pending>>
    /\ UNCHANGED <<error_read, error_data>>
    /\ UNCHANGED notStreamVars

\* The body calls save_to_file (streaming.py:96-124): a closed response is
\* refused before the file is opened; otherwise aiter_bytes is run to its
\* end, which closes the response.
BodySaveToFile(err) ==
    /\ InBody
    /\ ~iterating
    /\ IF IsClosed
       THEN /\ err = "none"
            /\ body_err' = "RuntimeError"
            /\ UNCHANGED <<sr_closed, resp_closed, sr_closes, aclose_calls, chunks_left, received>>
       ELSE /\ IF ClosesOnEnd(err)
               THEN SrClose
               ELSE UNCHANGED <<sr_closed, resp_closed, sr_closes, aclose_calls>>
            /\ body_err' = err
            /\ chunks_left' = IF err = "none" THEN 0 ELSE chunks_left
            /\ received' = IF err = "none" THEN received + chunks_left ELSE received
    /\ UNCHANGED <<use_middleware, body_args, stream_outcome, spc, sexit, sr_exists,
                   resp_streamed, iterating, gen_pending>>
    /\ UNCHANGED <<error_read, error_data>>
    /\ UNCHANGED notStreamVars

\* The body calls aclose on the StreamingResponse (streaming.py:136-140), any
\* number of times up to the bound.
BodyClose ==
    /\ InBody
    /\ ~iterating
    /\ aclose_calls < MaxCloses
    /\ SrClose
    /\ UNCHANGED <<use_middleware, body_args, stream_outcome, chunks_left, spc, sexit, sr_exists,
                   resp_streamed, iterating, gen_pending, body_err, received>>
    /\ UNCHANGED <<error_read, error_data>>
    /\ UNCHANGED notStreamVars

\* The body raises an exception of its own; a loop it was in is abandoned.
BodyRaise ==
    /\ InBody
    /\ body_err' = "BodyError"
    /\ iterating' = FALSE
    /\ gen_pending' = (gen_pending \/ iterating)
    /\ UNCHANGED <<use_middleware, body_args, stream_outcome, chunks_left, spc, sexit, sr_exists,
                   sr_closed, resp_closed, resp_streamed, sr_closes, aclose_calls, received>>
    /\ UNCHANGED <<error_read, error_data>>
    /\ UNCHANGED notStreamVars

\* The body handles the exception itself and goes on.
BodyCatch ==
    /\ spc = "scope"
    /\ body_err # "none"
    /\ body_err' = "none"
    /\ UNCHANGED <<use_middleware, body_args, stream_outcome, chunks_left, spc, sexit, sr_exists,
                   sr_closed, resp_closed, resp_streamed, sr_closes, aclose_calls, iterating, gen_pending,
                   received>>
    /\ UNCHANGED <<error_read, error_data>>
    /\ UNCHANGED notStreamVars

\* The scope is left (streaming.py:297-315): the finally clause closes the
\* StreamingResponse; an exception of the body then passes the except
\* clauses, which close the transport response and convert transport errors.
ScopeExit ==
    /\ spc = "scope"
    /\ ~iterating
    /\ LET how == IF body_err = "none" THEN "normal" ELSE ConvertError(body_err)
       IN  /\ spc' = "left"
           /\ sexit' = how
           /\ IF FinallyCloses(how)
              THEN SrClose
              ELSE /\ resp_closed' = (resp_closed \/ how # "normal")
                   /\ UNCHANGED <<sr_closed, sr_closes, aclose_calls>>
    /\ body_err' = "none"
    /\ UNCHANGED <<use_middleware, body_args, stream_outcome, chunks_left, sr_exists,
                   resp_streamed, iterating, gen_pending, received>>
    /\ UNCHANGED <<error_read, error_data>>
    /\ UNCHANGED notStreamVars

StreamNext ==
    \/ StreamBuild
    \/ StreamSend
    \/ BodyIterStart
    \/ BodyIterNext
    \/ \E err \in {"none", "RequestError", "TimeoutException"} : BodyIterEnd(err)
    \/ BodyIterAbandon
    \/ GenFinalize
    \/ \E err \in {"none", "RequestError", "TimeoutException"} : BodyReadAll(err)
    \/ \E err \in {"none", "RequestError", "TimeoutException"} : BodySaveToFile(err)
    \/ BodyClose
    \/ BodyRaise
    \/ BodyCatch
    \/ ScopeExit

\* ------------------------------------------------------------------------
\* Properties of stream_request
\* ------------------------------------------------------------------------

\* C9: every StreamingResponse yielded by stream_request is closed once the
\* scope has been left, whether the body finished normally or raised.
C9_ClosedAfterScope == (spc = "left" /\ sr_exists) => IsClosed

\* The scope of a streamed response was left by an exception of the body
\* while part of the response body was still unread.
C9_Witness ==
    /\ spc = "left"
    /\ sr_exists
    /\ sexit = "BodyError"
    /\ resp_streamed
    /\ received = 1
    /\ chunks_left = 1
    /\ IsClosed

\* The same for a body that finished normally without closing anything.
C9_WitnessNormal ==
    /\ spc = "left"
    /\ sr_exists
    /\ sexit = "normal"
    /\ resp_streamed
    /\ chunks_left = MaxChunks
    /\ sr_closes = 1

\* A read of the body comes to its end: an iteration is exhausted or fails,
\* read_all returns or fails, or either is refused on a closed response.
ReadEnds ==
    \/ \E err \in {"none", "RequestError", "TimeoutException"} : BodyIterEnd(err)
    \/ \E err \in {"none", "RequestError", "TimeoutException"} : BodyReadAll(err)
    \/ (BodyIterStart /\ body_err' = "RuntimeError")

\* C22: a StreamingResponse is closed as soon as an iteration over it is
\* exhausted, as soon as read_all returns, and whenever one of them ends
\* with an error, without the body calling aclose.
C22_ClosedAfterRead == [][ReadEnds => (sr_closed' \/ resp_closed')]_vars

\* An iteration failed with a transport error after one chunk, and the
\* only aclose call made so far is the one of its finally clause.
C22_Witness ==
    /\ spc = "scope"
    /\ body_err = "RequestError"
    /\ resp_streamed
    /\ received = 1
    /\ sr_closed
    /\ aclose_calls = 1

\* C23: however often aclose is called on a StreamingResponse, the
\* transport response is closed by it exactly once; a call on a closed
\* StreamingResponse changes nothing and raises nothing.
C23_AcloseOnce ==
    /\ [](aclose_calls >= 1 => (sr_closes = 1 /\ sr_closed))
    /\ [][(BodyClose /\ sr_closed) =>
             UNCHANGED <<use_middleware, body_args, stream_outcome, chunks_left, spc, sexit,
                         sr_exists, sr_closed, resp_closed, resp_streamed, sr_closes,
                         iterating, gen_pending, body_err, received>>]_vars

\* The body has called aclose as often as the bound allows, and nothing
\* else has closed the response.
C23_Witness ==
    /\ spc = "scope"
    /\ body_err = "none"
    /\ resp_streamed
    /\ received = 0
    /\ ~gen_pending
    /\ aclose_calls = MaxCloses
    /\ sr_closes = 1

\* C24: for a response with status >= 400, stream_request reads at most
\* 1 MiB of the body before it raises ApplicationError, however large the
\* body is.
C24_ErrorReadBounded == sexit = "ApplicationError" => error_read <= ErrorLimitChunks

\* A read of the body is called: aiter_bytes / aiter_text / aiter_lines is
\* started, or read_all or save_to_file is called.
ReadCalled ==
    \/ BodyIterStart
    \/ \E err \in {"none", "RequestError", "TimeoutException"} : BodyReadAll(err)
    \/ \E err \in {"none", "RequestError", "TimeoutException"} : BodySaveToFile(err)

\* C34: once a StreamingResponse is closed it stays closed, and every read
\* called on it afterwards (an iteration, read_all, save_to_file) fails with
\* the closed-response RuntimeError and delivers no data.
C34_ClosedStaysClosed ==
    [][ /\ (sr_exists /\ (sr_closed \/ resp_closed)) => (sr_closed' \/ resp_closed')
        /\ (sr_exists /\ (sr_closed \/ resp_closed) /\ ReadCalled)
              => /\ body_err' = "RuntimeError"
                 /\ received' = received
                 /\ chunks_left' = chunks_left
                 /\ ~iterating' ]_vars

\* A read_all emptied the body and closed the response, and a later read was
\* refused.
C34_Witness ==
    /\ sr_closed
    /\ received = MaxChunks
    /\ body_err = "RuntimeError"
    /\ spc = "scope"

\* C40: the response that stream_request hands to its caller was sent in
\* streaming mode and is still open, its body unread, without middleware
\* and with a middleware chain alike.
C40_HandedStreaming ==
    (sr_exists /\ spc = "scope") => resp_streamed

StreamPark ==
    /\ use_middleware = FALSE /\ body_args = "none" /\ stream_outcome = NoOutcome.out
    /\ chunks_left = 0 /\ spc = "parked" /\ sexit = "none" /\ sr_exists = FALSE
    /\ sr_closed = FALSE /\ resp_closed = FALSE /\ resp_streamed = FALSE /\ sr_closes = 0 /\ aclose_calls = 0
    /\ error_read = 0 /\ error_data = "absent"
    /\ iterating = FALSE /\ gen_pending = FALSE /\ body_err = "none" /\ received = 0

\* ========================================================================
\* client.py, streaming.py: who closes the transport client
\* ========================================================================

Wrappers == {"ClientBase", "AsyncClientBase", "AsyncStreamingClient"}

\* The constructors (client.py:55-75, 489-509; streaming.py:160-182):
\* _owns_client is False for a supplied client, True for one built here.
OwnsClient(injected) == ~injected

\* Mutant of ClosesTransport: close() closes whatever transport it holds.
ClosesTransportAlways(owns) == TRUE

\* close() / aclose() (client.py:83-86, 517-520; streaming.py:190-193):
\* `if self._owns_client:` guards the close of the transport.
ClosesTransport(owns) == owns

ClientInit ==
    /\ wrapper \in Wrappers
    /\ client_arg \in BOOLEAN
    /\ owns_client = OwnsClient(client_arg)
    /\ cscope = "none"
    /\ transport_closed = FALSE
    /\ closes_invoked = 0
    /\ wrapper_closes = 0
    /\ requests_sent = 0
    /\ requests_refused = 0

\* The body of close() / aclose(), as primed values.
WrapperClose ==
    /\ closes_invoked' = closes_invoked + 1
    /\ IF ClosesTransport(owns_client)
       THEN /\ wrapper_closes' = wrapper_closes + 1
            /\ transport_closed' = TRUE
       ELSE UNCHANGED <<wrapper_closes, transport_closed>>

\* __enter__ / __aenter__ (client.py:77-78, 511-512; streaming.py:184-185)
ClientEnter ==
    /\ cscope = "none"
    /\ cscope' = "inside"
    /\ UNCHANGED <<wrapper, client_arg, owns_client, transport_closed, closes_invoked,
                   wrapper_closes, requests_sent, requests_refused>>
    /\ UNCHANGED notClientVars

\* __exit__ / __aexit__ (client.py:80-81, 514-515; streaming.py:187-188):
\* called however the body of the scope ended, it calls close() / aclose().
ClientExit ==
    /\ cscope = "inside"
    /\ cscope' = "left"
    /\ WrapperClose
    /\ UNCHANGED <<wrapper, client_arg, owns_client, requests_sent, requests_refused>>
    /\ UNCHANGED notClientVars

\* An explicit close() / aclose() (client.py:83-86, 517-520;
\* streaming.py:190-193), at any time and any number of times.
ClientClose ==
    /\ closes_invoked < MaxCloses
    /\ WrapperClose
    /\ UNCHANGED <<wrapper, client_arg, owns_client, cscope, requests_sent, requests_refused>>
    /\ UNCHANGED notClientVars

\* A request is sent on the transport (client.py:334-339, 768-773;
\* streaming.py:271-277); a closed transport refuses it.
ClientRequest ==
    /\ requests_sent + requests_refused < MaxRequests
    /\ IF transport_closed
       THEN /\ requests_refused' = requests_refused + 1
            /\ UNCHANGED requests_sent
       ELSE /\ requests_sent' = requests_sent + 1
            /\ UNCHANGED requests_refused
    /\ UNCHANGED <<wrapper, client_arg, owns_client, cscope, transport_closed, closes_invoked,
                   wrapper_closes>>
    /\ UNCHANGED notClientVars

\* The caller closes the transport it supplied.
CallerClose ==
    /\ client_arg
    /\ ~transport_closed
    /\ transport_closed' = TRUE
    /\ UNCHANGED <<wrapper, client_arg, owns_client, cscope, closes_invoked, wrapper_closes,
                   requests_sent, requests_refused>>
    /\ UNCHANGED notClientVars

ClientNext ==
    \/ ClientEnter
    \/ ClientExit
    \/ ClientClose
    \/ ClientRequest
    \/ CallerClose

\* ------------------------------------------------------------------------
\* Properties of transport ownership
\* ------------------------------------------------------------------------

\* C10: a wrapper closes its transport on close / aclose and on leaving its
\* with / async with scope exactly when it built the transport itself: it
\* never closes a supplied transport, and it closes its own one on every
\* close and on leaving the scope.
C10_ClosesIffOwned ==
    /\ client_arg => wrapper_closes = 0
    /\ ~client_arg => wrapper_closes = closes_invoked
    /\ (~client_arg /\ (cscope = "left" \/ closes_invoked > 0)) => transport_closed

\* A wrapper around a supplied transport was closed explicitly and its scope
\* was left, and the transport is still open.
C10_Witness ==
    /\ client_arg
    /\ cscope = "left"
    /\ closes_invoked >= 2
    /\ ~transport_closed
    /\ wrapper_closes = 0

\* A wrapper that built its transport left its scope and closed it.
C10_WitnessOwned ==
    /\ ~client_arg
    /\ cscope = "left"
    /\ closes_invoked = 1
    /\ transport_closed
    /\ requests_sent > 0

ClientPark ==
    /\ wrapper = "none" /\ client_arg = FALSE /\ owns_client = FALSE /\ cscope = "parked"
    /\ transport_closed = FALSE /\ closes_invoked = 0 /\ wrapper_closes = 0
    /\ requests_sent = 0 /\ requests_refused = 0

\* ========================================================================
\* client.py: ClientBase._make_request and AsyncClientBase._make_request
\* ========================================================================

\* Exceptions of the transport: subclasses of httpx.TimeoutException, and
\* other subclasses of httpx.RequestError.
TimeoutExceptions == {"ConnectTimeout", "ReadTimeout", "PoolTimeout"}
OtherRequestErrors == {"ConnectError", "ReadError", "TooManyRedirects"}

\* httpx.TimeoutException is itself a subclass of httpx.RequestError.
IsTimeoutException(e) == e \in TimeoutExceptions
IsRequestError(e) == e \in TimeoutExceptions \cup OtherRequestErrors

\* Response bodies: JSON the response model accepts, JSON it rejects, the
\* JSON value null, and bytes that are not JSON.
BodyKinds == {"valid", "mismatch", "null", "garbage"}

\* What response.json() gives; "raises" stands for the exception it raises
\* on a body that is not JSON.
ParseJson(body) == IF body = "garbage" THEN "raises" ELSE body

ResponseModels == {"none", "NO_VALIDATION", "model"}

RequestOutcomes ==
    [kind : {"response"}, status : Statuses, body : BodyKinds]
    \cup [kind : TimeoutExceptions \cup OtherRequestErrors, status : {0}, body : {"garbage"}]

NoRequestResult == [kind |-> "none", status |-> 0, error_data |-> "absent", value |-> "absent"]

\* Mutant of CatchClause: the except clauses in the opposite order.
CatchClauseSwapped(e) ==
    IF IsRequestError(e) THEN "NetworkError"
    ELSE IF IsTimeoutException(e) THEN "TimeoutError"
    ELSE e

\* The except clauses of _make_request (client.py:466-469, 906-909): the
\* first clause whose class the exception is an instance of handles it.
CatchClause(e) ==
    IF IsTimeoutException(e) THEN "TimeoutError"
    ELSE IF IsRequestError(e) THEN "NetworkError"
    ELSE e

\* exceptions.py:44-65: TimeoutError is a subclass of NetworkError.
IsNetworkError(k) == k \in {"NetworkError", "TimeoutError"}

\* Mutant of ErrorStatus: only server errors are turned into exceptions.
ErrorStatusServerOnly(status) == status >= 500

\* `if response.status_code >= 400` (client.py:343, 777)
ErrorStatus(status) == status >= 400

\* _handle_error_response (client.py:344-350): the payload of the
\* ApplicationError; a body that does not parse leaves it None, and so does
\* the JSON value null.
ErrorData(body) ==
    IF ParseJson(body) \in {"raises", "null"} THEN "absent" ELSE ParseJson(body)

\* The decoding of a successful response (client.py:352-427, 459-464).
Decode(model, body) ==
    IF model = "model"
    THEN IF body = "valid" THEN [kind |-> "ApiResponse", value |-> body]
         ELSE [kind |-> "ValidationError", value |-> "absent"]
    ELSE IF ParseJson(body) = "raises" THEN [kind |-> "ValidationError", value |-> "absent"]
         ELSE [kind |-> "ApiResponse", value |-> ParseJson(body)]

RequestInit ==
    /\ rq_client \in {"ClientBase", "AsyncClientBase"}
    /\ rq_args \in {"none", "json_data", "json_model", "both"}
    /\ rq_middleware \in BOOLEAN
    /\ rq_model \in ResponseModels
    /\ rq_outcome \in RequestOutcomes
    /\ rq_pc = "start"
    /\ rq_sends = 0
    /\ rq_parses = 0
    /\ rq_decodes = 0
    /\ rq_result = NoRequestResult

\* _validate_request_params and _build_request (client.py:441-449).
RequestBuild ==
    /\ rq_pc = "start"
    /\ IF rq_args = "both"
       THEN /\ rq_pc' = "done"
            /\ rq_result' = [NoRequestResult EXCEPT !.kind = "ValueError"]
       ELSE /\ rq_pc' = "built"
            /\ UNCHANGED rq_result
    /\ UNCHANGED <<rq_client, rq_args, rq_middleware, rq_model, rq_outcome, rq_sends, rq_parses,
                   rq_decodes>>
    /\ UNCHANGED notRequestVars

\* _execute_request (client.py:334-339, 452-453): the request is sent on
\* the transport, directly or at the end of the middleware chain; an
\* exception of the transport arrives in the except clauses.
RequestExecute ==
    /\ rq_pc = "built"
    /\ rq_sends' = rq_sends + 1
    /\ IF rq_outcome.kind = "response"
       THEN /\ rq_pc' = "responded"
            /\ UNCHANGED rq_result
       ELSE /\ rq_pc' = "done"
            /\ rq_result' = [NoRequestResult EXCEPT !.kind = CatchClause(rq_outcome.kind)]
    /\ UNCHANGED <<rq_client, rq_args, rq_middleware, rq_model, rq_outcome, rq_parses,
                   rq_decodes>>
    /\ UNCHANGED notRequestVars

\* The rest of the try block (client.py:455-464): an error status raises
\* ApplicationError with the metadata of the response, anything else is
\* decoded.
RequestFinish ==
    /\ rq_pc = "responded"
    /\ rq_pc' = "done"
    /\ IF ErrorStatus(rq_outcome.status)
       THEN /\ rq_parses' = rq_parses + 1
            /\ rq_result' = [kind |-> "ApplicationError", status |-> rq_outcome.status,
                             error_data |-> ErrorData(rq_outcome.body), value |-> "absent"]
            /\ UNCHANGED rq_decodes
       ELSE /\ rq_decodes' = rq_decodes + 1
            /\ rq_result' = [kind |-> Decode(rq_model, rq_outcome.body).kind,
                             status |-> IF Decode(rq_model, rq_outcome.body).kind = "ApiResponse"
                                        THEN rq_outcome.status ELSE 0,
                             error_data |-> "absent",
                             value |-> Decode(rq_model, rq_outcome.body).value]
            /\ UNCHANGED rq_parses
    /\ UNCHANGED <<rq_client, rq_args, rq_middleware, rq_model, rq_outcome, rq_sends>>
    /\ UNCHANGED notRequestVars

RequestNext ==
    \/ RequestBuild
    \/ RequestExecute
    \/ RequestFinish

\* ------------------------------------------------------------------------
\* Properties of _make_request
\* ------------------------------------------------------------------------

RequestGotResponse == rq_pc = "done" /\ rq_sends = 1 /\ rq_outcome.kind = "response"

\* C11: a response with status >= 400 makes the request operation raise
\* ApplicationError carrying the metadata of that response; a body that is
\* not JSON leaves the payload absent and raises nothing else; no decoding
\* into the response model is attempted.
C11_ErrorStatusRaises ==
    (RequestGotResponse /\ rq_outcome.status >= 400) =>
        /\ rq_result.kind = "ApplicationError"
        /\ rq_result.status = rq_outcome.status
        /\ rq_outcome.body = "garbage" => rq_result.error_data = "absent"
        /\ rq_decodes = 0

\* An error response with a body that is not JSON, for a call that asked
\* for a response model.
C11_Witness ==
    /\ RequestGotResponse
    /\ rq_outcome.status = 404
    /\ rq_outcome.body = "garbage"
    /\ rq_model = "model"
    /\ rq_result.kind = "ApplicationError"
    /\ rq_result.error_data = "absent"

\* C12: a timeout of the transport reaches the caller as TimeoutError, any
\* other failure of the transport as a NetworkError that is not a
\* TimeoutError, and no exception of the transport escapes unconverted.
C12_TransportErrors ==
    (rq_pc = "done" /\ rq_sends = 1 /\ rq_outcome.kind # "response") =>
        /\ IsTimeoutException(rq_outcome.kind) => rq_result.kind = "TimeoutError"
        /\ ~IsTimeoutException(rq_outcome.kind) => rq_result.kind = "NetworkError"
        /\ ~IsRequestError(rq_result.kind)

\* A read timeout behind a middleware chain came out as TimeoutError.
C12_Witness ==
    /\ rq_pc = "done"
    /\ rq_middleware
    /\ rq_outcome.kind = "ReadTimeout"
    /\ rq_result.kind = "TimeoutError"

\* A connection failure came out as NetworkError.
C12_WitnessNetwork ==
    /\ rq_pc = "done"
    /\ rq_outcome.kind = "ConnectError"
    /\ rq_result.kind = "NetworkError"

RequestPark ==
    /\ rq_client = "none" /\ rq_args = "none" /\ rq_middleware = FALSE /\ rq_model = "none"
    /\ rq_outcome = [kind |-> "none", status |-> 0, body |-> "garbage"] /\ rq_pc = "parked"
    /\ rq_sends = 0 /\ rq_parses = 0 /\ rq_decodes = 0 /\ rq_result = NoRequestResult

\* ========================================================================
\* auth.py: OAuth2ClientCredentialsAuth, synchronous path, and AuthToken
\* ========================================================================

NothingSeen == [asked |-> FALSE, expires_in |-> NoExpiry, elapsed |-> 0, result |-> FALSE]

TokenInit ==
    /\ tk_token = NoToken                 \* auth.py:188
    /\ tk_now = 0
    /\ tk_posts = 0
    /\ tk_signs = 0
    /\ tk_header = -1
    /\ tk_raised = FALSE
    /\ tk_seen = NothingSeen

\* apply_auth (auth.py:264-268) with _get_valid_token_sync (auth.py:213-236):
\* a cached token that is not expired signs the request; otherwise a token
\* request is sent, and its answer is cached and signs the request.
TokenSign(e) ==
    /\ tk_signs < MaxSigns
    /\ tk_signs' = tk_signs + 1
    /\ tk_raised' = FALSE
    /\ IF TokenValid(tk_token, tk_now)
       THEN /\ tk_header' = tk_token.id
            /\ UNCHANGED <<tk_token, tk_posts>>
       ELSE /\ tk_posts' = tk_posts + 1
            /\ tk_token' = [present |-> TRUE, id |-> tk_posts + 1, expires_in |-> e,
                            created |-> tk_now, refresh |-> FALSE]
            /\ tk_header' = tk_posts + 1
    /\ UNCHANGED <<tk_now, tk_seen>>
    /\ UNCHANGED notTokenVars

\* The same call when the token request fails in post() or in
\* raise_for_status() (auth.py:219-224): nothing is cached or signed.
TokenSignFails ==
    /\ tk_signs < MaxSigns
    /\ ~TokenValid(tk_token, tk_now)
    /\ tk_signs' = tk_signs + 1
    /\ tk_posts' = tk_posts + 1
    /\ tk_raised' = TRUE
    /\ UNCHANGED <<tk_token, tk_now, tk_header, tk_seen>>
    /\ UNCHANGED notTokenVars

\* The is_expired property of the cached token is read (auth.py:32-40).
TokenCheck ==
    /\ tk_token.present
    /\ tk_seen' = [asked |-> TRUE, expires_in |-> tk_token.expires_in,
                   elapsed |-> tk_now - tk_token.created,
                   result |-> IsExpired(tk_token, tk_now)]
    /\ UNCHANGED <<tk_token, tk_now, tk_posts, tk_signs, tk_header, tk_raised>>
    /\ UNCHANGED notTokenVars

\* Time passes, half the expiry buffer at a time.
TokenTick ==
    /\ tk_now < MaxHalfTicks * (ExpiryBuffer \div 2)
    /\ tk_now' = tk_now + (ExpiryBuffer \div 2)
    /\ UNCHANGED <<tk_token, tk_posts, tk_signs, tk_header, tk_raised, tk_seen>>
    /\ UNCHANGED notTokenVars

TokenNext ==
    \/ \E e \in ExpiresChoices : TokenSign(e)
    \/ TokenSignFails
    \/ TokenCheck
    \/ TokenTick

\* ------------------------------------------------------------------------
\* Properties of token caching and expiry
\* ------------------------------------------------------------------------

\* The adapter holds a token that is not expired.
HoldsFreshToken ==
    /\ tk_token.present
    /\ \/ tk_token.expires_in = NoExpiry
       \/ tk_now - tk_token.created < tk_token.expires_in - 60

\* C13: a token request is sent only when the adapter holds no token or an
\* expired one; a sign operation performed while the cached token is not
\* expired sends no request, keeps the token and signs with it.
C13_RequestOnlyWhenStale ==
    [][ /\ tk_posts' # tk_posts => ~HoldsFreshToken
        /\ (tk_signs' # tk_signs /\ HoldsFreshToken) =>
              /\ tk_posts' = tk_posts
              /\ tk_token' = tk_token
              /\ tk_header' = tk_token.id
              /\ ~tk_raised' ]_vars

\* Three sign operations, the later ones at later times, used the token
\* of the single request.
C13_Witness ==
    /\ tk_signs = 3
    /\ tk_posts = 1
    /\ tk_header = 1
    /\ tk_token.expires_in = 3600
    /\ tk_now - tk_token.created >= 60

\* C14: a token with expires_in = E reports is_expired = false while less
\* than E - 60 seconds have elapsed since it was made and true from then
\* on; a token without expires_in never reports expired.
C14_ExpiryBuffer ==
    tk_seen.asked =>
        /\ tk_seen.expires_in = NoExpiry => ~tk_seen.result
        /\ (tk_seen.expires_in # NoExpiry /\ tk_seen.elapsed < tk_seen.expires_in - 60)
              => ~tk_seen.result
        /\ (tk_seen.expires_in # NoExpiry /\ tk_seen.elapsed >= tk_seen.expires_in - 60)
              => tk_seen.result

\* A token of 120 seconds was seen fresh after 30 seconds ...
C14_Witness ==
    /\ tk_seen.asked
    /\ tk_seen.expires_in = 120
    /\ tk_seen.elapsed = 30
    /\ ~tk_seen.result

\* ... and expired after exactly 60 seconds.
C14_WitnessExpired ==
    /\ tk_seen.asked
    /\ tk_seen.expires_in = 120
    /\ tk_seen.elapsed = 60
    /\ tk_seen.result

TokenPark ==
    /\ tk_token = NoToken /\ tk_now = 0 /\ tk_posts = 0 /\ tk_signs = -1
    /\ tk_header = -1 /\ tk_raised = FALSE /\ tk_seen = NothingSeen

\* ========================================================================
\* testing.py: CassetteClient, CassetteMiddleware, AsyncCassetteMiddleware
\* ========================================================================

\* Requests differ in method and URL, the two fields playback matches on.
CassetteRequests == [method : {"GET", "POST"}, url : {"/a", "/b"}]

\* Responses: a JSON body, a body that is not JSON, an empty body.
CassetteResponses ==
    { [status |-> 200, content |-> "json"],
      [status |-> 404, content |-> "text"],
      [status |-> 204, content |-> "empty"] }

Interactions == [request : CassetteRequests, response : CassetteResponses]

\* The transport answers a real call with a response, or fails.
TransportFailure == [status |-> 0, content |-> "RequestError"]
TransportResults == CassetteResponses \cup {TransportFailure}

NoRequest == [method |-> "none", url |-> "none"]
NoResponse == [status |-> 0, content |-> "none"]
NoCassetteOp == [op |-> "none", request |-> NoRequest, kind |-> "none", response |-> NoResponse]

SeqsUpTo(S, n) == UNION {[1..k -> S] : k \in 0..n}

\* is_recording and is_playback (testing.py:227-235)
IsRecording == cassette_mode = "record"
IsPlayback == cassette_mode = "playback"

\* CassetteClient.record, CassetteClient.playback with _load_cassette, and
\* the constructor with allow_new_requests (testing.py:166-196).
CassetteInit ==
    /\ cassette_mode \in {"record", "playback"}
    /\ allow_new_requests \in BOOLEAN
    /\ cassette_file \in SeqsUpTo(Interactions, MaxInteractions)
    /\ playback_interactions = IF cassette_mode = "playback" THEN cassette_file ELSE <<>>
    /\ cassette_mode = "record" => cassette_file = <<>>
    /\ recorded_interactions = <<>>
    /\ current_interaction = 0
    /\ transport_calls = 0
    /\ cassette_ops = 0
    /\ cassette_last = NoCassetteOp

\* Mutant of NextInteraction: the cursor is not advanced.
NextInteractionStuck(cursor) == cursor

\* `self._current_interaction += 1` (testing.py:222)
NextInteraction(cursor) == cursor + 1

\* CassetteClient.get_next_response (testing.py:213-225); Python indexes
\* the list from 0.
GetNextResponse(req) ==
    /\ cassette_ops < MaxCassetteOps
    /\ cassette_ops' = cassette_ops + 1
    /\ IF cassette_mode # "playback"
       THEN /\ cassette_last' = [op |-> "get_next_response", request |-> req, kind |-> "None",
                                 response |-> NoResponse]
            /\ UNCHANGED current_interaction
       ELSE IF current_interaction >= Len(playback_interactions)
       THEN /\ cassette_last' = [op |-> "get_next_response", request |-> req,
                                 kind |-> "RuntimeError", response |-> NoResponse]
            /\ UNCHANGED current_interaction
       ELSE /\ cassette_last' = [op |-> "get_next_response", request |-> req,
                                 kind |-> "response",
                                 response |-> playback_interactions[current_interaction + 1].response]
            /\ current_interaction' = NextInteraction(current_interaction)
    /\ UNCHANGED <<cassette_mode, allow_new_requests, playback_interactions,
                   recorded_interactions, cassette_file, transport_calls>>
    /\ UNCHANGED notCassetteVars

\* CassetteClient.record_interaction (testing.py:237-267): the list of
\* recorded interactions after the call.
RecordInteraction(req, resp) ==
    IF ~IsRecording
    THEN recorded_interactions
    ELSE Append(recorded_interactions, [request |-> req, response |-> resp])

\* The interactions find_matching_response looks at (testing.py:279-284):
\* positions of the loaded interactions with the method and URL of req.
Matches(req) ==
    {i \in 1..Len(playback_interactions) :
        /\ playback_interactions[i].request.method = req.method
        /\ playback_interactions[i].request.url = req.url}

\* CassetteClient.find_matching_response (testing.py:269-303): None outside
\* playback or without a match; otherwise the first match is rebuilt as a
\* response, its content parsed with json.loads unless it is empty, which
\* raises for content that is not JSON.
FindMatchingResponse(req) ==
    IF ~IsPlayback \/ Matches(req) = {}
    THEN [kind |-> "None", response |-> NoResponse]
    ELSE LET first == CHOOSE i \in Matches(req) : \A j \in Matches(req) : i <= j
             resp == playback_interactions[first].response
         IN  IF resp.content = "text"
             THEN [kind |-> "JSONDecodeError", response |-> NoResponse]
             ELSE [kind |-> "response", response |-> resp]

\* CassetteMiddleware.handle and AsyncCassetteMiddleware.handle
\* (testing.py:32-38, 73-79): the request goes to the continuation, which
\* ends in one call of the transport, and its result comes back.
CassetteHandle(req, real) ==
    /\ cassette_ops < MaxCassetteOps
    /\ cassette_ops' = cassette_ops + 1
    /\ transport_calls' = transport_calls + 1
    /\ cassette_last' = IF real = TransportFailure
                        THEN [op |-> "handle", request |-> req, kind |-> "RequestError",
                              response |-> NoResponse]
                        ELSE [op |-> "handle", request |-> req, kind |-> "real",
                              response |-> real]
    /\ UNCHANGED <<cassette_mode, allow_new_requests, playback_interactions,
                   recorded_interactions, current_interaction, cassette_file>>
    /\ UNCHANGED notCassetteVars

\* What process_request does when it makes the real call (testing.py:45-47,
\* 58-60 and 86-88, 98-100): send, then record_interaction.
RealCall(req, real) ==
    /\ transport_calls' = transport_calls + 1
    /\ IF real = TransportFailure
       THEN /\ cassette_last' = [op |-> "process_request", request |-> req,
                                 kind |-> "RequestError", response |-> NoResponse]
            /\ UNCHANGED recorded_interactions
       ELSE /\ cassette_last' = [op |-> "process_request", request |-> req, kind |-> "real",
                                 response |-> real]
            /\ recorded_interactions' = RecordInteraction(req, real)

\* CassetteMiddleware.process_request and
\* AsyncCassetteMiddleware.process_request (testing.py:40-64, 81-105).
ProcessRequest(req, real) ==
    /\ cassette_ops < MaxCassetteOps
    /\ cassette_ops' = cassette_ops + 1
    /\ IF IsRecording
       THEN RealCall(req, real)
       ELSE IF FindMatchingResponse(req).kind = "JSONDecodeError"
       THEN /\ cassette_last' = [op |-> "process_request", request |-> req,
                                 kind |-> "JSONDecodeError", response |-> NoResponse]
            /\ UNCHANGED <<recorded_interactions, transport_calls>>
       ELSE IF FindMatchingResponse(req).kind = "response"
       THEN /\ cassette_last' = [op |-> "process_request", request |-> req,
                                 kind |-> "recorded",
                                 response |-> FindMatchingResponse(req).response]
            /\ UNCHANGED <<recorded_interactions, transport_calls>>
       ELSE IF allow_new_requests
       THEN RealCall(req, real)
       ELSE /\ cassette_last' = [op |-> "process_request", request |-> req,
                                 kind |-> "ValueError", response |-> NoResponse]
            /\ UNCHANGED <<recorded_interactions, transport_calls>>
    /\ UNCHANGED <<cassette_mode, allow_new_requests, playback_interactions,
                   current_interaction, cassette_file>>
    /\ UNCHANGED notCassetteVars

\* CassetteClient.save_cassette (testing.py:198-211): the file is rewritten
\* with the recorded interactions.
SaveCassette ==
    /\ cassette_ops < MaxCassetteOps
    /\ cassette_ops' = cassette_ops + 1
    /\ cassette_file' = recorded_interactions
    /\ cassette_last' = [op |-> "save_cassette", request |-> NoRequest, kind |-> "None",
                         response |-> NoResponse]
    /\ UNCHANGED <<cassette_mode, allow_new_requests, playback_interactions,
                   recorded_interactions, current_interaction, transport_calls>>
    /\ UNCHANGED notCassetteVars

CassetteNext ==
    \/ \E req \in CassetteRequests : GetNextResponse(req)
    \/ \E req \in CassetteRequests, real \in TransportResults : CassetteHandle(req, real)
    \/ \E req \in CassetteRequests, real \in TransportResults : ProcessRequest(req, real)
    \/ SaveCassette

\* ------------------------------------------------------------------------
\* Properties of the cassette
\* ------------------------------------------------------------------------

\* The step is one call of the named operation.
CassetteStep(ops) == cassette_ops' = cassette_ops + 1 /\ cassette_last'.op \in ops

\* C15: in playback mode get_next_response returns the response of the
\* interaction at the cursor, whatever the request, and moves the cursor by
\* one; with the cursor at the end it raises RuntimeError; in recording
\* mode it returns None and changes nothing; no other operation moves the
\* cursor, so the k-th call returns the k-th interaction.
C15_PositionalReplay ==
    [][ /\ CassetteStep({"get_next_response"}) =>
            IF cassette_mode = "playback"
            THEN IF current_interaction < Len(playback_interactions)
                 THEN /\ cassette_last'.kind = "response"
                      /\ cassette_last'.response =
                            playback_interactions[current_interaction + 1].response
                      /\ current_interaction' = current_interaction + 1
                 ELSE /\ cassette_last'.kind = "RuntimeError"
                      /\ current_interaction' = current_interaction
            ELSE /\ cassette_last'.kind = "None"
                 /\ UNCHANGED <<cassette_mode, allow_new_requests, playback_interactions,
                                recorded_interactions, current_interaction, cassette_file,
                                transport_calls>>
        /\ ~CassetteStep({"get_next_response"}) =>
                current_interaction' = current_interaction ]_vars

\* Two interactions with different responses were replayed in order and the
\* third call raised.
C15_Witness ==
    /\ cassette_mode = "playback"
    /\ Len(playback_interactions) = 2
    /\ playback_interactions[1].response # playback_interactions[2].response
    /\ current_interaction = 2
    /\ cassette_ops = 3
    /\ cassette_last.op = "get_next_response"
    /\ cassette_last.kind = "RuntimeError"

\* C16: a request handled by the cassette middleware in recording mode, by
\* handle or by process_request, makes one real transport call, appends one
\* interaction to the cassette and returns the real response.
C16_RecordingRecords ==
    [][ (/\ cassette_mode = "record"
         /\ CassetteStep({"handle", "process_request"})
         /\ cassette_last'.kind # "RequestError") =>
            /\ transport_calls' = transport_calls + 1
            /\ cassette_last'.kind = "real"
            /\ recorded_interactions' =
                  Append(recorded_interactions, [request |-> cassette_last'.request,
                                                 response |-> cassette_last'.response]) ]_vars

\* C17: in playback mode with allow_new_requests, a request matching no
\* recorded interaction makes one real transport call and the pair is
\* recorded in the cassette client.
C17_NewRequestRecorded ==
    [][ (/\ cassette_mode = "playback"
         /\ allow_new_requests
         /\ CassetteStep({"process_request"})
         /\ Matches(cassette_last'.request) = {}
         /\ cassette_last'.kind # "RequestError") =>
            /\ transport_calls' = transport_calls + 1
            /\ cassette_last'.kind = "real"
            /\ recorded_interactions' =
                  Append(recorded_interactions, [request |-> cassette_last'.request,
                                                 response |-> cassette_last'.response]) ]_vars

\* C18: in playback mode without allow_new_requests process_request
\* makes no real transport call: a request matching a recorded interaction
\* is answered with the status and body of the first such interaction, and
\* a request matching none raises ValueError.
C18_PlaybackOnly ==
    [][ (/\ cassette_mode = "playback"
         /\ ~allow_new_requests
         /\ CassetteStep({"process_request"})) =>
            /\ transport_calls' = transport_calls
            /\ IF Matches(cassette_last'.request) # {}
               THEN /\ cassette_last'.kind = "recorded"
                    /\ \E i \in Matches(cassette_last'.request) :
                          /\ cassette_last'.response = playback_interactions[i].response
                          /\ \A j \in Matches(cassette_last'.request) : i <= j
               ELSE cassette_last'.kind = "ValueError" ]_vars

CassettePark ==
    /\ cassette_mode = "parked" /\ allow_new_requests = FALSE /\ playback_interactions = <<>>
    /\ recorded_interactions = <<>> /\ current_interaction = 0 /\ cassette_file = <<>>
    /\ transport_calls = 0 /\ cassette_ops = 0 /\ cassette_last = NoCassetteOp

\* ========================================================================
\* batch.py: BatchContextManager
\* ========================================================================
\* client._make_request is 0 while it is the client's own operation and m
\* while it is the batch_request closure installed by manager m.

Managers == 1..NumManagers

\* self._original_make_request = None (batch.py:126)
NoOriginal == -1

ScopeInit ==
    /\ client_make_request = 0
    /\ original_make_request = [m \in Managers |-> NoOriginal]
    /\ bscope = [m \in Managers |-> "new"]
    /\ entered_with = [m \in Managers |-> 0]
    /\ exit_kind = [m \in Managers |-> "none"]
    /\ batch_tasks = [m \in Managers |-> 0]
    /\ transport_requests = 0
    /\ task_errors = 0
    /\ invocations = 0
    /\ batch_gathers = 0
    /\ batch_last = [op |-> "none", manager |-> 0]

\* Mutant of Restored: __aexit__ leaves the client as it is.
RestoredNever(original, current) == current

\* __aexit__ (batch.py:149-153): the value of client._make_request after it.
Restored(original, current) == IF original # NoOriginal THEN original ELSE current

\* Mutant of InvokeSends: batch_request also performs the request.
InvokeSendsAlways(target) == 1

\* Transport calls made by one call of client._make_request: one by the
\* client's own operation (client.py:891-909), none by batch_request, which
\* only builds and queues the task (batch.py:134-144).
InvokeSends(target) == IF target = 0 THEN 1 ELSE 0

\* __aenter__ (batch.py:128-147)
ScopeEnter(m) ==
    /\ bscope[m] = "new"
    /\ original_make_request' = [original_make_request EXCEPT ![m] = client_make_request]
    /\ entered_with' = [entered_with EXCEPT ![m] = client_make_request]
    /\ client_make_request' = m
    /\ bscope' = [bscope EXCEPT ![m] = "active"]
    /\ batch_last' = [op |-> "enter", manager |-> m]
    /\ UNCHANGED <<exit_kind, batch_tasks, transport_requests, task_errors, invocations,
                   batch_gathers>>
    /\ UNCHANGED notScopeVars

\* The caller invokes client._make_request(...): the client's own operation
\* performs the request; batch_request (batch.py:134-144) adds one task to
\* its manager's BatchClient and returns it.
InvokeMakeRequest ==
    /\ invocations < MaxInvocations
    /\ client_make_request # 0 => batch_tasks[client_make_request] < MaxBatchTasks
    /\ invocations' = invocations + 1
    /\ transport_requests' = transport_requests + InvokeSends(client_make_request)
    /\ batch_tasks' = IF client_make_request = 0
                      THEN batch_tasks
                      ELSE [batch_tasks EXCEPT ![client_make_request] = @ + 1]
    /\ batch_last' = [op |-> "invoke", manager |-> client_make_request]
    /\ UNCHANGED <<client_make_request, original_make_request, bscope, entered_with, exit_kind,
                   task_errors, batch_gathers>>
    /\ UNCHANGED notScopeVars

\* gather() on the BatchClient of manager m (batch.py:42-85) runs every
\* task (batch.py:136-140): each awaits self._original_make_request(...).
\* When that is the client's own operation the request is performed; when
\* it is the batch_request of an enclosing manager, a task is added there
\* and awaiting the function it returns raises TypeError.
ScopeGather(m) ==
    /\ bscope[m] # "new"
    /\ batch_gathers < MaxBatchGathers
    /\ batch_gathers' = batch_gathers + 1
    /\ LET target == original_make_request[m]
           n == batch_tasks[m]
       IN  IF target = 0
           THEN /\ transport_requests' = transport_requests + n
                /\ UNCHANGED <<batch_tasks, task_errors>>
           ELSE /\ batch_tasks[target] + n <= MaxBatchTasks
                /\ batch_tasks' = [batch_tasks EXCEPT ![target] = @ + n]
                /\ task_errors' = task_errors + n
                /\ transport_requests' = transport_requests + n * InvokeSends(target)
    /\ batch_last' = [op |-> "gather", manager |-> m]
    /\ UNCHANGED <<client_make_request, original_make_request, bscope, entered_with, exit_kind,
                   invocations>>
    /\ UNCHANGED notScopeVars

\* __aexit__ (batch.py:149-153), after the body ended normally or raised.
ScopeLeave(m, how) ==
    /\ bscope[m] = "active"
    /\ bscope' = [bscope EXCEPT ![m] = "left"]
    /\ exit_kind' = [exit_kind EXCEPT ![m] = how]
    /\ client_make_request' = Restored(original_make_request[m], client_make_request)
    /\ batch_last' = [op |-> "exit", manager |-> m]
    /\ UNCHANGED <<original_make_request, entered_with, batch_tasks, transport_requests,
                   task_errors, invocations, batch_gathers>>
    /\ UNCHANGED notScopeVars

ScopeNext ==
    \/ \E m \in Managers : ScopeEnter(m)
    \/ InvokeMakeRequest
    \/ \E m \in Managers : ScopeGather(m)
    \/ \E m \in Managers, how \in {"normal", "exception"} : ScopeLeave(m, how)

\* ------------------------------------------------------------------------
\* Properties of BatchContextManager
\* ------------------------------------------------------------------------

\* C19: when a scope is left, normally or by an exception, the client's
\* _make_request is again what it was before that scope was entered.
C19_RequestRestored ==
    [][ \A m \in Managers :
          (bscope[m] = "active" /\ bscope'[m] = "left") =>
              client_make_request' = entered_with[m] ]_vars

\* A single scope in which a request was deferred was left by an exception
\* and the client has its own operation back.
C19_Witness ==
    /\ bscope[1] = "left"
    /\ bscope[2] = "new"
    /\ exit_kind[1] = "exception"
    /\ batch_tasks[1] > 0
    /\ client_make_request = 0

C36_OverlapRestored ==
    (\A m \in Managers : bscope[m] = "left") => client_make_request = 0

ScopePark ==
    /\ client_make_request = 0 /\ original_make_request = [m \in Managers |-> NoOriginal]
    /\ bscope = [m \in Managers |-> "parked"] /\ entered_with = [m \in Managers |-> 0]
    /\ exit_kind = [m \in Managers |-> "none"] /\ batch_tasks = [m \in Managers |-> 0]
    /\ transport_requests = 0 /\ task_errors = 0 /\ invocations = 0 /\ batch_gathers = 0
    /\ batch_last = [op |-> "none", manager |-> 0]

\* ========================================================================
\* streaming.py: StreamingResponse.save_to_file and
\* AsyncStreamingClient.download_file
\* ========================================================================

\* Exceptions raised while a chunk is read or written: failures of the
\* transport (httpx.RequestError, httpx.TimeoutException), an OSError of
\* write(), any other exception of the stream.
WriteLoopErrors == {"RequestError", "TimeoutException", "OSError", "RuntimeError"}

\* Mutant of Unlinked: the handler re-raises without deleting the file.
UnlinkedNever(file) == file

\* The except clause of the write loop (streaming.py:113-121, 371-380):
\* os.unlink(file_path), its OSError for a missing file ignored.
Unlinked(file) == "absent"

\* What leaves download_file for an exception raised inside it: the
\* exception passes the except clauses of stream_request
\* (streaming.py:303-315). save_to_file re-raises as it is.
Propagated(entry, err) == IF entry = "download_file" THEN ConvertError(err) ELSE err

DownloadInit ==
    /\ dl_entry \in {"save_to_file", "download_file"}
    /\ dl_outcome \in IF dl_entry = "download_file"
                      THEN StreamOutcomes
                      ELSE {[kind |-> "response", status |-> 200]}
    /\ dl_preclosed \in IF dl_entry = "save_to_file" THEN BOOLEAN ELSE {FALSE}
    /\ dl_chunks \in 0..MaxChunks
    /\ dl_file \in {"absent", "old"}
    /\ dl_written = 0
    /\ dl_pc = "start"
    /\ dl_error = "none"
    /\ dl_error_at = "none"
    /\ dl_result = "none"
    /\ dl_closed = dl_preclosed

\* The call up to the opening of the file. save_to_file refuses a closed
\* response (streaming.py:106-107); download_file sends the request through
\* stream_request (streaming.py:349, 271-296). open(file_path, 'wb')
\* creates the file or empties the one that is there (streaming.py:111, 361).
DownloadOpen ==
    /\ dl_pc = "start"
    /\ IF dl_entry = "save_to_file" /\ dl_closed
       THEN /\ dl_pc' = "done"
            /\ dl_result' = "RuntimeError"
            /\ UNCHANGED <<dl_file, dl_closed>>
       ELSE IF dl_outcome.kind # "response"
       THEN /\ dl_pc' = "done"
            /\ dl_result' = ConvertError(dl_outcome.kind)
            /\ UNCHANGED <<dl_file, dl_closed>>
       ELSE IF IsErrorStatus(dl_outcome.status)
       THEN /\ dl_pc' = "done"
            /\ dl_result' = "ApplicationError"
            /\ dl_closed' = TRUE
            /\ UNCHANGED dl_file
       ELSE /\ dl_pc' = "writing"
            /\ dl_file' = "partial"
            /\ UNCHANGED <<dl_result, dl_closed>>
    /\ UNCHANGED <<dl_entry, dl_outcome, dl_preclosed, dl_chunks, dl_written, dl_error,
                   dl_error_at>>
    /\ UNCHANGED notDownloadVars

\* One chunk is read and written (streaming.py:112-114, 362-364).
DownloadChunk ==
    /\ dl_pc = "writing"
    /\ dl_chunks > 0
    /\ dl_chunks' = dl_chunks - 1
    /\ dl_written' = dl_written + 1
    /\ UNCHANGED <<dl_entry, dl_outcome, dl_preclosed, dl_file, dl_pc, dl_error, dl_error_at,
                   dl_result, dl_closed>>
    /\ UNCHANGED notDownloadVars

\* The body is exhausted: aiter_bytes closes the response, the file is
\* closed; save_to_file returns the count (streaming.py:124), download_file
\* yields the progress information (streaming.py:369).
DownloadComplete ==
    /\ dl_pc = "writing"
    /\ dl_chunks = 0
    /\ dl_file' = "complete"
    /\ dl_closed' = TRUE
    /\ IF dl_entry = "save_to_file"
       THEN /\ dl_pc' = "done"
            /\ dl_result' = "returned"
       ELSE /\ dl_pc' = "yielded"
            /\ UNCHANGED dl_result
    /\ UNCHANGED <<dl_entry, dl_outcome, dl_preclosed, dl_chunks, dl_written, dl_error,
                   dl_error_at>>
    /\ UNCHANGED notDownloadVars

\* Reading or writing a chunk raises (streaming.py:115-122, 371-380): the
\* except clause deletes the file and re-raises.
DownloadError(err) ==
    /\ dl_pc = "writing"
    /\ dl_pc' = "done"
    /\ dl_error' = err
    /\ dl_error_at' = "write_loop"
    /\ dl_file' = Unlinked(dl_file)
    /\ dl_closed' = (dl_closed \/ dl_entry = "download_file" \/ err # "OSError")
    /\ dl_result' = Propagated(dl_entry, err)
    /\ UNCHANGED <<dl_entry, dl_outcome, dl_preclosed, dl_chunks, dl_written>>
    /\ UNCHANGED notDownloadVars

\* The body of the caller's `async with download_file(...)` ends normally.
DownloadScopeReturn ==
    /\ dl_pc = "yielded"
    /\ dl_pc' = "done"
    /\ dl_result' = "returned"
    /\ UNCHANGED <<dl_entry, dl_outcome, dl_preclosed, dl_chunks, dl_file, dl_written,
                   dl_error, dl_error_at, dl_closed>>
    /\ UNCHANGED notDownloadVars

\* The body of the caller's scope raises: the exception is thrown into
\* download_file at its yield, which stands inside the try block
\* (streaming.py:360-380), so the same except clause runs.
DownloadScopeRaise ==
    /\ dl_pc = "yielded"
    /\ dl_pc' = "done"
    /\ dl_error' = "BodyError"
    /\ dl_error_at' = "scope_body"
    /\ dl_file' = Unlinked(dl_file)
    /\ dl_result' = Propagated(dl_entry, "BodyError")
    /\ UNCHANGED <<dl_entry, dl_outcome, dl_preclosed, dl_chunks, dl_written, dl_closed>>
    /\ UNCHANGED notDownloadVars

DownloadNext ==
    \/ DownloadOpen
    \/ DownloadChunk
    \/ DownloadComplete
    \/ \E err \in WriteLoopErrors : DownloadError(err)
    \/ DownloadScopeReturn
    \/ DownloadScopeRaise

\* ------------------------------------------------------------------------
\* Properties of the file downloads
\* ------------------------------------------------------------------------

FailedWriting == dl_pc = "done" /\ dl_error_at = "write_loop"

C39_BodyErrorKeepsFile ==
    (dl_pc = "done" /\ dl_error_at = "scope_body") => dl_file = "complete"

DownloadPark ==
    /\ dl_entry = "none" /\ dl_outcome = NoOutcome.out /\ dl_preclosed = FALSE
    /\ dl_chunks = 0 /\ dl_file = "absent" /\ dl_written = 0 /\ dl_pc = "parked"
    /\ dl_error = "none" /\ dl_error_at = "none" /\ dl_result = "none" /\ dl_closed = FALSE

\* ========================================================================
\* testing.py: record_interaction, save_cassette and playback of one path
\* ========================================================================

\* Python values stored in an interaction: None, a str, an int.
PyNone == [t |-> "NoneType", s |-> "", n |-> 0]
PyStr(s) == [t |-> "str", s |-> s, n |-> 0]
PyInt(n) == [t |-> "int", s |-> "", n |-> n]

\* Requests and responses handed to record_interaction; the content is
\* bytes: empty, UTF-8 text, or bytes that are not UTF-8.
RecordedRequests ==
    { [method |-> "GET", url |-> "/a", content |-> "empty"],
      [method |-> "POST", url |-> "/a", content |-> "utf8"],
      [method |-> "POST", url |-> "/b", content |-> "not-utf8"] }

RecordedResponses ==
    { [status_code |-> 200, content |-> "utf8", reason_phrase |-> "OK"],
      [status_code |-> 204, content |-> "empty", reason_phrase |-> "No Content"] }

\* bytes.decode("utf-8", errors="replace") (testing.py:249, 258): bytes that
\* are not UTF-8 become replacement characters.
DecodeReplace(bytes) ==
    CASE bytes = "empty" -> PyStr("")
      [] bytes = "utf8" -> PyStr("text")
      [] OTHER -> PyStr("U+FFFD")

\* request_data of record_interaction (testing.py:245-252): the content is
\* None for a request without content.
SerializeRequest(req) ==
    [method |-> PyStr(req.method),
     url |-> PyStr(req.url),
     content |-> IF req.content = "empty" THEN PyNone ELSE DecodeReplace(req.content)]

\* response_data of record_interaction (testing.py:255-260)
SerializeResponse(resp) ==
    [status_code |-> PyInt(resp.status_code),
     content |-> DecodeReplace(resp.content),
     reason_phrase |-> PyStr(resp.reason_phrase)]

\* json.dump of a value (testing.py:203-211): None is written as null, a
\* str as a JSON string, an int as a JSON number.
JsonDump(py) ==
    CASE py.t = "NoneType" -> [j |-> "null", s |-> "", n |-> 0]
      [] py.t = "str" -> [j |-> "string", s |-> py.s, n |-> 0]
      [] OTHER -> [j |-> "number", s |-> "", n |-> py.n]

\* Mutant of JsonLoad: null is read back as the text "null".
JsonLoadNullAsText(js) ==
    CASE js.j = "null" -> PyStr("null")
      [] js.j = "string" -> PyStr(js.s)
      [] OTHER -> PyInt(js.n)

\* json.load of a value (testing.py:194-195)
JsonLoad(js) ==
    CASE js.j = "null" -> PyNone
      [] js.j = "string" -> PyStr(js.s)
      [] OTHER -> PyInt(js.n)

\* The document save_cassette writes (testing.py:202-211): the recorded
\* interactions as a JSON array in list order, and the version.
DumpCassette(recorded) ==
    [interactions |->
        [i \in 1..Len(recorded) |->
            [request |-> [method |-> JsonDump(recorded[i].request.method),
                          url |-> JsonDump(recorded[i].request.url),
                          content |-> JsonDump(recorded[i].request.content)],
             response |-> [status_code |-> JsonDump(recorded[i].response.status_code),
                           content |-> JsonDump(recorded[i].response.content),
                           reason_phrase |-> JsonDump(recorded[i].response.reason_phrase)]]],
     version |-> JsonDump(PyStr("1.0"))]

\* _load_cassette (testing.py:190-196): `data.get("interactions", [])` of
\* the parsed document.
LoadCassette(doc) ==
    [i \in 1..Len(doc.interactions) |->
        [request |-> [method |-> JsonLoad(doc.interactions[i].request.method),
                      url |-> JsonLoad(doc.interactions[i].request.url),
                      content |-> JsonLoad(doc.interactions[i].request.content)],
         response |-> [status_code |-> JsonLoad(doc.interactions[i].response.status_code),
                       content |-> JsonLoad(doc.interactions[i].response.content),
                       reason_phrase |->
                           JsonLoad(doc.interactions[i].response.reason_phrase)]]]

NoCassetteFile == [exists |-> FALSE, doc |-> DumpCassette(<<>>)]

\* CassetteClient.record(path) on a path without a file (testing.py:166-182).
RoundtripInit ==
    /\ rt_mode = "record"
    /\ rt_recorded = <<>>
    /\ rt_playback = <<>>
    /\ rt_file = NoCassetteFile
    /\ rt_saved = <<>>
    /\ rt_ops = 0

\* CassetteClient.record_interaction (testing.py:237-267): nothing is
\* recorded outside recording mode.
RtRecord(req, resp) ==
    /\ rt_ops < MaxRoundtripOps
    /\ rt_ops' = rt_ops + 1
    /\ rt_recorded' = IF rt_mode # "record"
                      THEN rt_recorded
                      ELSE Append(rt_recorded, [request |-> SerializeRequest(req),
                                                response |-> SerializeResponse(resp)])
    /\ UNCHANGED <<rt_mode, rt_playback, rt_file, rt_saved>>
    /\ UNCHANGED notRoundtripVars

\* CassetteClient.save_cassette (testing.py:198-211): the file is created
\* or rewritten.
RtSave ==
    /\ rt_ops < MaxRoundtripOps
    /\ rt_ops' = rt_ops + 1
    /\ rt_file' = [exists |-> TRUE, doc |-> DumpCassette(rt_recorded)]
    /\ rt_saved' = rt_recorded
    /\ UNCHANGED <<rt_mode, rt_recorded, rt_playback>>
    /\ UNCHANGED notRoundtripVars

\* CassetteClient.playback(path) (testing.py:183-196): a new client in
\* playback mode, loaded from the file if the file exists.
RtPlayback ==
    /\ rt_ops < MaxRoundtripOps
    /\ rt_ops' = rt_ops + 1
    /\ rt_mode' = "playback"
    /\ rt_recorded' = <<>>
    /\ rt_playback' = IF rt_file.exists THEN LoadCassette(rt_file.doc) ELSE <<>>
    /\ UNCHANGED <<rt_file, rt_saved>>
    /\ UNCHANGED notRoundtripVars

\* CassetteClient.record(path) (testing.py:176-181): a new client in
\* recording mode; the file is not read.
RtRecordClient ==
    /\ rt_ops < MaxRoundtripOps
    /\ rt_ops' = rt_ops + 1
    /\ rt_mode' = "record"
    /\ rt_recorded' = <<>>
    /\ rt_playback' = <<>>
    /\ UNCHANGED <<rt_file, rt_saved>>
    /\ UNCHANGED notRoundtripVars

RoundtripNext ==
    \/ \E req \in RecordedRequests, resp \in RecordedResponses : RtRecord(req, resp)
    \/ RtSave
    \/ RtPlayback
    \/ RtRecordClient

\* ------------------------------------------------------------------------
\* Properties of the cassette round trip
\* ------------------------------------------------------------------------

RoundtripPark ==
    /\ rt_mode = "parked" /\ rt_recorded = <<>> /\ rt_playback = <<>>
    /\ rt_file = NoCassetteFile /\ rt_saved = <<>> /\ rt_ops = 0

\* ========================================================================
\* auth.py: the synchronous token path under threads
\* ========================================================================

SignThreads == 1..NumThreads

\* An AuthToken built from the token response with the given id: the
\* access token and the expiry both come from that response.
ThreadToken(id) == [access |-> id, expires |-> id]

NoThreadToken == [access |-> -1, expires |-> -1]

\* Mutant of StoreToken: the cached token is updated in place, the access
\* token first.
StoreTokenInPlace(cached, reply) ==
    [access |-> reply, expires |-> IF cached = NoThreadToken THEN reply ELSE cached.expires]

\* `self._token = AuthToken(...)` (auth.py:228-234): the new token is built
\* from the response and then bound to the attribute in one assignment.
StoreToken(cached, reply) == ThreadToken(reply)

\* The adapter has no token yet or holds one from an earlier call; no
\* thread has started.
ThreadsInit ==
    /\ th_token \in {NoThreadToken, ThreadToken(0)}
    /\ th_stale = {}
    /\ th_pc = [t \in SignThreads |-> "start"]
    /\ th_local = [t \in SignThreads |-> NoThreadToken]
    /\ th_reply = [t \in SignThreads |-> -1]
    /\ th_posts = 0
    /\ th_header = [t \in SignThreads |-> NoThreadToken]
    /\ th_result = [t \in SignThreads |-> "none"]

\* `if self._token` (auth.py:215): the first read of the attribute.
ThHasToken(t) ==
    /\ th_pc[t] = "start"
    /\ th_pc' = [th_pc EXCEPT ![t] = IF th_token = NoThreadToken THEN "post" ELSE "check"]
    /\ UNCHANGED <<th_token, th_stale, th_local, th_reply, th_posts, th_header, th_result>>
    /\ UNCHANGED notThreadsVars

\* `and not self._token.is_expired` (auth.py:215): the attribute is read
\* again; None here would raise AttributeError.
ThCheckExpired(t) ==
    /\ th_pc[t] = "check"
    /\ IF th_token = NoThreadToken
       THEN /\ th_pc' = [th_pc EXCEPT ![t] = "failed"]
            /\ th_result' = [th_result EXCEPT ![t] = "AttributeError"]
       ELSE /\ th_pc' = [th_pc EXCEPT ![t] =
                            IF th_token.expires \in th_stale THEN "post" ELSE "return"]
            /\ UNCHANGED th_result
    /\ UNCHANGED <<th_token, th_stale, th_local, th_reply, th_posts, th_header>>
    /\ UNCHANGED notThreadsVars

\* `return self._token` (auth.py:216): a third read of the attribute.
ThReturnCached(t) ==
    /\ th_pc[t] = "return"
    /\ th_local' = [th_local EXCEPT ![t] = th_token]
    /\ th_pc' = [th_pc EXCEPT ![t] = "sign"]
    /\ UNCHANGED <<th_token, th_stale, th_reply, th_posts, th_header, th_result>>
    /\ UNCHANGED notThreadsVars

\* The token request and raise_for_status (auth.py:219-225): the endpoint
\* answers with a new token or with an error status.
ThPost(t, ok) ==
    /\ th_pc[t] = "post"
    /\ th_posts' = th_posts + 1
    /\ IF ok
       THEN /\ th_reply' = [th_reply EXCEPT ![t] = th_posts + 1]
            /\ th_pc' = [th_pc EXCEPT ![t] = "store"]
            /\ UNCHANGED th_result
       ELSE /\ th_pc' = [th_pc EXCEPT ![t] = "failed"]
            /\ th_result' = [th_result EXCEPT ![t] = "HTTPStatusError"]
            /\ UNCHANGED th_reply
    /\ UNCHANGED <<th_token, th_stale, th_local, th_header>>
    /\ UNCHANGED notThreadsVars

\* The response is parsed and the token stored (auth.py:227-234).
ThStore(t) ==
    /\ th_pc[t] = "store"
    /\ th_token' = StoreToken(th_token, th_reply[t])
    /\ th_pc' = [th_pc EXCEPT ![t] = "return_new"]
    /\ UNCHANGED <<th_stale, th_local, th_reply, th_posts, th_header, th_result>>
    /\ UNCHANGED notThreadsVars

\* `return self._token` (auth.py:236): the attribute is read, not the
\* token this thread built.
ThReturnNew(t) ==
    /\ th_pc[t] = "return_new"
    /\ th_local' = [th_local EXCEPT ![t] = th_token]
    /\ th_pc' = [th_pc EXCEPT ![t] = "sign"]
    /\ UNCHANGED <<th_token, th_stale, th_reply, th_posts, th_header, th_result>>
    /\ UNCHANGED notThreadsVars

\* `request.headers["Authorization"] = token.to_header_value()`
\* (auth.py:264-268)
ThSign(t) ==
    /\ th_pc[t] = "sign"
    /\ th_header' = [th_header EXCEPT ![t] = th_local[t]]
    /\ th_result' = [th_result EXCEPT ![t] = "signed"]
    /\ th_pc' = [th_pc EXCEPT ![t] = "done"]
    /\ UNCHANGED <<th_token, th_stale, th_local, th_reply, th_posts>>
    /\ UNCHANGED notThreadsVars

\* Time passes and the cached token reaches its expiry (auth.py:22-30).
ThExpire ==
    /\ th_token # NoThreadToken
    /\ th_token.expires \notin th_stale
    /\ th_stale' = th_stale \cup {th_token.expires}
    /\ UNCHANGED <<th_token, th_pc, th_local, th_reply, th_posts, th_header, th_result>>
    /\ UNCHANGED notThreadsVars

ThreadsNext ==
    \/ \E t \in SignThreads : ThHasToken(t)
    \/ \E t \in SignThreads : ThCheckExpired(t)
    \/ \E t \in SignThreads : ThReturnCached(t)
    \/ \E t \in SignThreads, ok \in BOOLEAN : ThPost(t, ok)
    \/ \E t \in SignThreads : ThStore(t)
    \/ \E t \in SignThreads : ThReturnNew(t)
    \/ \E t \in SignThreads : ThSign(t)
    \/ ThExpire

\* ------------------------------------------------------------------------
\* Properties of the synchronous token path under threads
\* ------------------------------------------------------------------------

\* The token is one the token endpoint returned, with all its fields from
\* the same response.
CompleteToken(tok) == tok.access \in 0..th_posts /\ tok.expires = tok.access

ThreadsPark ==
    /\ th_token = NoThreadToken /\ th_stale = {}
    /\ th_pc = [t \in SignThreads |-> "parked"]
    /\ th_local = [t \in SignThreads |-> NoThreadToken]
    /\ th_reply = [t \in SignThreads |-> -1]
    /\ th_posts = 0
    /\ th_header = [t \in SignThreads |-> NoThreadToken]
    /\ th_result = [t \in SignThreads |-> "none"]

\* ========================================================================
\* auth.py: OAuth2AuthorizationCodeAuth, synchronous path
\* ========================================================================

\* The message of auth.py:405
ExpiredNoRefresh == "Access token is expired and no refresh token available"

\* What the token endpoint says about the refresh token in its answer: the
\* key is missing, null, or a new refresh token.
RefreshAnswers == {"missing", "null", "new"}

\* Mutant of CanRefresh: a refresh is always tried.
CanRefreshAlways(tok) == TRUE

\* `if self._token.refresh_token` (auth.py:402): None and "" are falsy.
CanRefresh(tok) == tok.refresh

\* `token_data.get("refresh_token", self._token.refresh_token)`
\* (auth.py:361): whether the new token has a refresh token.
KeepsRefresh(tok, answer) == IF answer = "missing" THEN tok.refresh ELSE answer = "new"

\* The constructor (auth.py:290-335): the initial access token has id 0,
\* with or without a lifetime and a refresh token.
AuthcodeInit ==
    /\ ac_token \in {[present |-> TRUE, id |-> 0, expires_in |-> e, created |-> 0,
                      refresh |-> r] : e \in ExpiresChoices, r \in BOOLEAN}
    /\ ac_now = 0
    /\ ac_posts = 0
    /\ ac_signs = 0
    /\ ac_header = -1
    /\ ac_error = "none"

\* apply_auth (auth.py:418-422) with _get_valid_token_sync (auth.py:397-405)
\* and _refresh_token_sync (auth.py:337-365): a token that is not expired
\* signs the request; an expired one is refreshed if there is a refresh
\* token, and the answer is stored and signs the request, or the refresh
\* request fails in raise_for_status; without a refresh token the call
\* raises RuntimeError.
AcSign(ok, e, answer) ==
    /\ ac_signs < MaxSigns
    /\ ac_signs' = ac_signs + 1
    /\ IF ~IsExpired(ac_token, ac_now)
       THEN /\ ac_header' = ac_token.id
            /\ ac_error' = "none"
            /\ UNCHANGED <<ac_token, ac_posts>>
       ELSE IF CanRefresh(ac_token)
       THEN /\ ac_posts' = ac_posts + 1
            /\ IF ok
               THEN /\ ac_token' = [present |-> TRUE, id |-> ac_posts + 1, expires_in |-> e,
                                    created |-> ac_now,
                                    refresh |-> KeepsRefresh(ac_token, answer)]
                    /\ ac_header' = ac_posts + 1
                    /\ ac_error' = "none"
               ELSE /\ ac_header' = -1
                    /\ ac_error' = "HTTPStatusError"
                    /\ UNCHANGED ac_token
       ELSE /\ ac_header' = -1
            /\ ac_error' = ExpiredNoRefresh
            /\ UNCHANGED <<ac_token, ac_posts>>
    /\ UNCHANGED ac_now
    /\ UNCHANGED notAuthcodeVars

\* Time passes, half the expiry buffer at a time.
AcTick ==
    /\ ac_now < MaxHalfTicks * (ExpiryBuffer \div 2)
    /\ ac_now' = ac_now + (ExpiryBuffer \div 2)
    /\ UNCHANGED <<ac_token, ac_posts, ac_signs, ac_header, ac_error>>
    /\ UNCHANGED notAuthcodeVars

AuthcodeNext ==
    \/ \E ok \in BOOLEAN, e \in ExpiresChoices, answer \in RefreshAnswers : AcSign(ok, e, answer)
    \/ AcTick

\* ------------------------------------------------------------------------
\* Properties of the authorization-code adapter
\* ------------------------------------------------------------------------

\* C29: signing a request when the adapter's token is expired and it holds
\* no refresh token fails with 'Access token is expired and no refresh
\* token available', sends no token request and sets no Authorization
\* header on the request.
C29_ExpiredNoRefreshFails ==
    [][(/\ ac_signs' = ac_signs + 1
        /\ IsExpired(ac_token, ac_now)
        /\ ~ac_token.refresh) =>
          /\ ac_error' = "Access token is expired and no refresh token available"
          /\ ac_posts' = ac_posts
          /\ ac_header' = -1
          /\ ac_token' = ac_token]_vars

\* A token was refreshed once, the answer took the refresh token away, and
\* the call made after the new token had expired raised.
C29_Witness ==
    /\ ac_error = ExpiredNoRefresh
    /\ ac_token.id = 1
    /\ ~ac_token.refresh
    /\ ac_posts = 1
    /\ ac_header = -1
    /\ IsExpired(ac_token, ac_now)

AuthcodePark ==
    /\ ac_token = NoToken /\ ac_now = 0 /\ ac_posts = 0 /\ ac_signs = -1
    /\ ac_header = -1 /\ ac_error = "none"

\* ========================================================================
\* client.py: ClientBase._make_request against AsyncClientBase._make_request
\* ========================================================================

\* What a caller sees of a call: the kind of the value or exception, the
\* metadata status, the error payload, the decoded value and the message.
NoParityResult ==
    [kind |-> "none", status |-> 0, error_data |-> "absent", value |-> "absent",
     message |-> "none"]

Returned(status, value) ==
    [kind |-> "ApiResponse", status |-> status, error_data |-> "absent", value |-> value,
     message |-> "none"]

Raised(kind, message) ==
    [kind |-> kind, status |-> 0, error_data |-> "absent", value |-> "absent",
     message |-> message]

\* ApplicationError.from_response (exceptions.py:91-102)
RaisedApplicationError(status, body) ==
    [kind |-> "ApplicationError", status |-> status, error_data |-> ErrorData(body),
     value |-> "absent", message |-> "API error"]

\* response.content of a response that came from the transport is bytes.
ResponseContentTypes == {"bytes"}

\* ClientBase._parse_json_response (client.py:352-360)
SyncParseJsonResponse(status, body) ==
    IF ParseJson(body) = "raises"
    THEN Raised("ValidationError", "Failed to parse JSON response")
    ELSE Returned(status, ParseJson(body))

\* ClientBase._validate_response_model (client.py:362-427): no validation
\* parses the JSON; a model validates response.content with
\* model_validate_json, whose failure becomes ValidationError.
SyncValidateResponseModel(model, status, body, content) ==
    IF model = "NO_VALIDATION"
    THEN SyncParseJsonResponse(status, body)
    ELSE IF body = "valid"
         THEN Returned(status, body)
         ELSE Raised("ValidationError", "Response validation failed")

\* The except clauses of ClientBase._make_request (client.py:466-469)
SyncExcept(e) ==
    IF IsTimeoutException(e) THEN Raised("TimeoutError", "Request timed out")
    ELSE IF IsRequestError(e) THEN Raised("NetworkError", "Network error")
    ELSE Raised(e, "none")

\* ClientBase._make_request (client.py:429-469) with
\* _validate_request_params (client.py:219-226), _execute_request
\* (client.py:334-339), whose send or middleware chain ends in the
\* transport's outcome, and _handle_error_response (client.py:341-350).
SyncMakeRequest(args, model, outcome, content) ==
    IF args = "both"
    THEN Raised("ValueError", "Cannot specify both json_data and json_model")
    ELSE IF outcome.kind # "response"
    THEN SyncExcept(outcome.kind)
    ELSE IF outcome.status >= 400
    THEN RaisedApplicationError(outcome.status, outcome.body)
    ELSE IF model # "none"
    THEN SyncValidateResponseModel(model, outcome.status, outcome.body, content)
    ELSE SyncParseJsonResponse(outcome.status, outcome.body)

\* AsyncClientBase._parse_json_response (client.py:786-794)
AsyncParseJsonResponse(status, body) ==
    IF ParseJson(body) = "raises"
    THEN Raised("ValidationError", "Failed to parse JSON response")
    ELSE Returned(status, ParseJson(body))

\* Mutant of AsyncValidateResponseModel: the fallback for content that is
\* not bytes is taken for every response.
AsyncValidateParsedJson(model, status, body, content) ==
    IF model = "NO_VALIDATION"
    THEN AsyncParseJsonResponse(status, body)
    ELSE IF ParseJson(body) = "raises"
         THEN AsyncParseJsonResponse(status, body)
         ELSE IF body = "valid"
              THEN Returned(status, body)
              ELSE Raised("ValidationError", "Response validation failed")

\* AsyncClientBase._validate_response_model (client.py:796-867): as the
\* synchronous one, except that content which is not bytes, bytearray or
\* str is parsed with response.json() and validated with model_validate.
AsyncValidateResponseModel(model, status, body, content) ==
    IF model = "NO_VALIDATION"
    THEN AsyncParseJsonResponse(status, body)
    ELSE IF content \notin {"bytes", "bytearray", "str"}
         THEN IF ParseJson(body) = "raises"
              THEN AsyncParseJsonResponse(status, body)
              ELSE IF body = "valid"
                   THEN Returned(status, body)
                   ELSE Raised("ValidationError", "Response validation failed")
         ELSE IF body = "valid"
              THEN Returned(status, body)
              ELSE Raised("ValidationError", "Response validation failed")

\* The except clauses of AsyncClientBase._make_request (client.py:906-909)
AsyncExcept(e) ==
    IF IsTimeoutException(e) THEN Raised("TimeoutError", "Request timed out")
    ELSE IF IsRequestError(e) THEN Raised("NetworkError", "Network error")
    ELSE Raised(e, "none")

\* AsyncClientBase._make_request (client.py:869-909) with
\* _validate_request_params (client.py:652-659), _execute_request
\* (client.py:768-773) and _handle_error_response (client.py:775-784).
AsyncMakeRequest(args, model, outcome, content) ==
    IF args = "both"
    THEN Raised("ValueError", "Cannot specify both json_data and json_model")
    ELSE IF outcome.kind # "response"
    THEN AsyncExcept(outcome.kind)
    ELSE IF outcome.status >= 400
    THEN RaisedApplicationError(outcome.status, outcome.body)
    ELSE IF model # "none"
    THEN AsyncValidateResponseModel(model, outcome.status, outcome.body, content)
    ELSE AsyncParseJsonResponse(outcome.status, outcome.body)

\* The same arguments and the same transport outcome for both clients.
ParityInit ==
    /\ pa_args \in {"none", "json_data", "json_model", "both"}
    /\ pa_model \in ResponseModels
    /\ pa_outcome \in RequestOutcomes
    /\ pa_content \in ResponseContentTypes
    /\ pa_sync = NoParityResult
    /\ pa_async = NoParityResult

\* The synchronous client makes the request.
ParitySync ==
    /\ pa_sync = NoParityResult
    /\ pa_sync' = SyncMakeRequest(pa_args, pa_model, pa_outcome, pa_content)
    /\ UNCHANGED <<pa_args, pa_model, pa_outcome, pa_content, pa_async>>
    /\ UNCHANGED notParityVars

\* The asynchronous client makes the request.
ParityAsync ==
    /\ pa_async = NoParityResult
    /\ pa_async' = AsyncMakeRequest(pa_args, pa_model, pa_outcome, pa_content)
    /\ UNCHANGED <<pa_args, pa_model, pa_outcome, pa_content, pa_sync>>
    /\ UNCHANGED notParityVars

ParityNext ==
    \/ ParitySync
    \/ ParityAsync

\* ------------------------------------------------------------------------
\* Properties of the two variants
\* ------------------------------------------------------------------------

\* C30: for the same request arguments and the same transport outcome the
\* synchronous and the asynchronous _make_request give the same result: the
\* same decoded value and metadata status, or an error of the same type
\* with the same message.
C30_SameResult ==
    (pa_sync # NoParityResult /\ pa_async # NoParityResult) => pa_sync = pa_async

\* Both clients got a 200 whose body is not JSON while expecting a model,
\* and both raised ValidationError from the model's own JSON parsing.
C30_Witness ==
    /\ pa_model = "model"
    /\ pa_outcome.kind = "response"
    /\ pa_outcome.status = 200
    /\ pa_outcome.body = "garbage"
    /\ pa_sync.kind = "ValidationError"
    /\ pa_async.message = "Response validation failed"

ParityPark ==
    /\ pa_args = "none" /\ pa_model = "none"
    /\ pa_outcome = [kind |-> "none", status |-> 0, body |-> "garbage"]
    /\ pa_content = "none" /\ pa_sync = NoParityResult /\ pa_async = NoParityResult

\* ========================================================================
\* option.py: serialize_option_dict and ReflectapiOption.map
\* ========================================================================

\* Python values as trees: every value has a type, a scalar part, and the
\* values it holds as a sequence of [k, v] entries (k is the key in a
\* dict and empty elsewhere). A ReflectapiOption holds its _value as its
\* only entry.
PyValue(t, s, kids) == [t |-> t, s |-> s, kids |-> kids]
Entry(k, v) == [k |-> k, v |-> v]
PyScalar == PyValue("int", "1", <<>>)
PyNoneValue == PyValue("NoneType", "None", <<>>)
PyUndefined == PyValue("_UndefinedType", "Undefined", <<>>)
OptionOf(raw) == PyValue("ReflectapiOption", "", <<Entry("", raw)>>)
ListOf(items) == PyValue("list", "", [i \in 1..Len(items) |-> Entry("", items[i])])
DictOf(entries) == PyValue("dict", "", entries)

\* Values nested up to the given depth: scalars, options in each of the
\* three states, lists and dicts of shallower values.
RECURSIVE ValuesAt(_)
ValuesAt(d) ==
    IF d = 0
    THEN {PyScalar, OptionOf(PyUndefined), OptionOf(PyNoneValue), OptionOf(PyScalar)}
    ELSE ValuesAt(d - 1)
         \cup {ListOf(<<>>)}
         \cup {ListOf(<<v>>) : v \in ValuesAt(d - 1)}
         \cup {DictOf(<<Entry("a", v)>>) : v \in ValuesAt(d - 1)}

SerializeInputs ==
    {DictOf(<<Entry("a", v)>>) : v \in ValuesAt(MaxNesting)}
    \cup {DictOf(<<Entry("a", v), Entry("b", w)>>) : v, w \in ValuesAt(0)}

\* ReflectapiOption.is_undefined, is_none, is_some (option.py:117-130)
OptIsUndefined(o) == o.kids[1].v = PyUndefined
OptIsNone(o) == o.kids[1].v = PyNoneValue
OptIsSome(o) == o.kids[1].v # PyUndefined /\ o.kids[1].v # PyNoneValue

RECURSIVE SerializeEntries(_, _)
RECURSIVE SerializeItems(_, _)

\* The loop over the items of a list (option.py:274-284), from item i on:
\* an option that is not undefined gives its _value, a dict is serialized,
\* anything else, a list included, is appended as it is.
SerializeItems(items, i) ==
    IF i > Len(items) THEN <<>>
    ELSE LET item == items[i].v
             rest == SerializeItems(items, i + 1)
         IN  IF item.t = "ReflectapiOption"
             THEN IF OptIsUndefined(item) THEN rest
                  ELSE <<Entry("", item.kids[1].v)>> \o rest
             ELSE IF item.t = "dict"
             THEN <<Entry("", DictOf(SerializeEntries(item.kids, 1)))>> \o rest
             ELSE <<Entry("", item)>> \o rest

\* The loop over data.items() (option.py:264-286), from entry i on.
SerializeEntries(entries, i) ==
    IF i > Len(entries) THEN <<>>
    ELSE LET key == entries[i].k
             value == entries[i].v
             rest == SerializeEntries(entries, i + 1)
         IN  IF value.t = "ReflectapiOption"
             THEN IF OptIsUndefined(value) THEN rest
                  ELSE <<Entry(key, value.kids[1].v)>> \o rest
             ELSE IF value.t = "dict"
             THEN <<Entry(key, DictOf(SerializeEntries(value.kids, 1)))>> \o rest
             ELSE IF value.t = "list"
             THEN <<Entry(key, PyValue("list", "", SerializeItems(value.kids, 1)))>> \o rest
             ELSE <<Entry(key, value)>> \o rest

\* serialize_option_dict (option.py:250-288)
SerializeOptionDict(data) == DictOf(SerializeEntries(data.kids, 1))

\* Values a function passed to map is given and gives back.
RawValues == {"v1", "v2"}
MapResults == RawValues \cup {"None", "Undefined"}
MapFuncs == [RawValues -> MapResults]

\* ReflectapiOption.map (option.py:175-186): the _value of the new option.
OptionMap(value, func) ==
    IF value # "Undefined" /\ value # "None" THEN func[value] ELSE value

\* ReflectapiOption.unwrap (option.py:147-160)
OptionUnwrap(value) ==
    IF value = "Undefined" \/ value = "None" THEN "ValueError" ELSE value

OptionInit ==
    /\ so_data \in SerializeInputs
    /\ so_result = DictOf(<<>>)
    /\ so_done = FALSE
    /\ om_opt \in MapResults
    /\ om_func \in MapFuncs
    /\ om_calls = 0
    /\ om_mapped = "Undefined"
    /\ om_unwrapped = "none"
    /\ om_done = FALSE

\* serialize_option_dict(data) is called.
OptSerialize ==
    /\ ~so_done
    /\ so_done' = TRUE
    /\ so_result' = SerializeOptionDict(so_data)
    /\ UNCHANGED <<so_data, om_opt, om_func, om_calls, om_mapped, om_unwrapped, om_done>>
    /\ UNCHANGED notOptionVars

\* option.map(f) is called and the result is unwrapped.
OptMap ==
    /\ ~om_done
    /\ om_done' = TRUE
    /\ om_calls' = IF om_opt # "Undefined" /\ om_opt # "None" THEN 1 ELSE 0
    /\ om_mapped' = OptionMap(om_opt, om_func)
    /\ om_unwrapped' = OptionUnwrap(OptionMap(om_opt, om_func))
    /\ UNCHANGED <<so_data, so_result, so_done, om_opt, om_func>>
    /\ UNCHANGED notOptionVars

OptionNext ==
    \/ OptSerialize
    \/ OptMap

\* ------------------------------------------------------------------------
\* Properties of the option helpers
\* ------------------------------------------------------------------------

\* The value is or holds, at any depth, a ReflectapiOption.
RECURSIVE ContainsOption(_)
ContainsOption(v) ==
    \/ v.t = "ReflectapiOption"
    \/ \E i \in 1..Len(v.kids) : ContainsOption(v.kids[i].v)

\* C31: the result of serialize_option_dict holds no Option wrapper at any
\* depth of nested mappings and lists: undefined entries are gone, the
\* others are replaced by their raw value.
C31_NoOptionLeft == so_done => ~ContainsOption(so_result)

\* C32: for an option Some(x) and every function f, map(f).unwrap() is
\* f(x); for an undefined or null option map does not call f and gives an
\* option in the same state.
C32_MapLaw ==
    om_done =>
        IF om_opt \in RawValues
        THEN om_unwrapped = om_func[om_opt]
        ELSE om_calls = 0 /\ om_mapped = om_opt

OptionPark ==
    /\ so_data = DictOf(<<>>) /\ so_result = DictOf(<<>>) /\ so_done = FALSE
    /\ om_opt = "Undefined" /\ om_func = <<>> /\ om_calls = 0 /\ om_mapped = "Undefined"
    /\ om_unwrapped = "none" /\ om_done = FALSE

\* ========================================================================
\* Specifications
\* ========================================================================

InitBatch ==
    /\ BatchInit /\ RetryPark /\ AuthPark /\ ChainPark /\ StreamPark /\ ClientPark /\ RequestPark /\ TokenPark
    /\ CassettePark /\ ScopePark
    /\ DownloadPark
    /\ RoundtripPark
    /\ ThreadsPark
    /\ AuthcodePark
    /\ ParityPark
    /\ OptionPark
SpecBatch == InitBatch /\ [][BatchNext]_vars

\* The event loop runs every coroutine that is ready, and every task that
\* is being awaited finishes.
SpecBatchFair ==
    /\ InitBatch /\ [][BatchNext]_vars
    /\ WF_vars(\E i \in 1..Len(tasks) : TaskAcquire(i))
    /\ WF_vars(\E i \in 1..Len(tasks) : TaskFinish(i))
    /\ WF_vars(GatherReturn)

InitRetry ==
    /\ RetryInit /\ BatchPark /\ AuthPark /\ ChainPark /\ StreamPark /\ ClientPark /\ RequestPark /\ TokenPark
    /\ CassettePark /\ ScopePark
    /\ DownloadPark
    /\ RoundtripPark
    /\ ThreadsPark
    /\ AuthcodePark
    /\ ParityPark
    /\ OptionPark
SpecRetry == InitRetry /\ [][RetryNext]_vars

InitAuth ==
    /\ AuthInit /\ BatchPark /\ RetryPark /\ ChainPark /\ StreamPark /\ ClientPark /\ RequestPark /\ TokenPark
    /\ CassettePark /\ ScopePark
    /\ DownloadPark
    /\ RoundtripPark
    /\ ThreadsPark
    /\ AuthcodePark
    /\ ParityPark
    /\ OptionPark
SpecAuth == InitAuth /\ [][AuthNext]_vars

InitChain ==
    /\ ChainInit /\ BatchPark /\ RetryPark /\ AuthPark /\ StreamPark /\ ClientPark /\ RequestPark /\ TokenPark
    /\ CassettePark /\ ScopePark
    /\ DownloadPark
    /\ RoundtripPark
    /\ ThreadsPark
    /\ AuthcodePark
    /\ ParityPark
    /\ OptionPark
SpecChain == InitChain /\ [][ChainNext]_vars

InitStream ==
    /\ StreamInit /\ BatchPark /\ RetryPark /\ AuthPark /\ ChainPark /\ ClientPark /\ RequestPark /\ TokenPark
    /\ CassettePark /\ ScopePark
    /\ DownloadPark
    /\ RoundtripPark
    /\ ThreadsPark
    /\ AuthcodePark
    /\ ParityPark
    /\ OptionPark
SpecStream == InitStream /\ [][StreamNext]_vars

InitClient ==
    /\ ClientInit /\ BatchPark /\ RetryPark /\ AuthPark /\ ChainPark /\ StreamPark /\ RequestPark /\ TokenPark
    /\ CassettePark /\ ScopePark
    /\ DownloadPark
    /\ RoundtripPark
    /\ ThreadsPark
    /\ AuthcodePark
    /\ ParityPark
    /\ OptionPark
SpecClient == InitClient /\ [][ClientNext]_vars

InitRequest ==
    /\ RequestInit /\ BatchPark /\ RetryPark /\ AuthPark /\ ChainPark /\ StreamPark
    /\ ClientPark /\ TokenPark /\ CassettePark /\ ScopePark
    /\ DownloadPark
    /\ RoundtripPark
    /\ ThreadsPark
    /\ AuthcodePark
    /\ ParityPark
    /\ OptionPark
SpecRequest == InitRequest /\ [][RequestNext]_vars

InitToken ==
    /\ TokenInit /\ BatchPark /\ RetryPark /\ AuthPark /\ ChainPark /\ StreamPark
    /\ ClientPark /\ RequestPark /\ CassettePark /\ ScopePark
    /\ DownloadPark
    /\ RoundtripPark
    /\ ThreadsPark
    /\ AuthcodePark
    /\ ParityPark
    /\ OptionPark
SpecToken == InitToken /\ [][TokenNext]_vars

InitCassette ==
    /\ CassetteInit /\ BatchPark /\ RetryPark /\ AuthPark /\ ChainPark /\ StreamPark
    /\ ClientPark /\ RequestPark /\ TokenPark /\ ScopePark
    /\ DownloadPark
    /\ RoundtripPark
    /\ ThreadsPark
    /\ AuthcodePark
    /\ ParityPark
    /\ OptionPark
SpecCassette == InitCassette /\ [][CassetteNext]_vars

InitScope ==
    /\ ScopeInit /\ BatchPark /\ RetryPark /\ AuthPark /\ ChainPark /\ StreamPark
    /\ ClientPark /\ RequestPark /\ TokenPark /\ CassettePark
    /\ DownloadPark
    /\ RoundtripPark
    /\ ThreadsPark
    /\ AuthcodePark
    /\ ParityPark
    /\ OptionPark
SpecScope == InitScope /\ [][ScopeNext]_vars

InitDownload ==
    /\ DownloadInit
    /\ AuthPark /\ BatchPark /\ CassettePark /\ ChainPark /\ ClientPark /\ RequestPark
    /\ RetryPark /\ ScopePark /\ StreamPark /\ TokenPark
    /\ RoundtripPark
    /\ ThreadsPark
    /\ AuthcodePark
    /\ ParityPark
    /\ OptionPark
SpecDownload == InitDownload /\ [][DownloadNext]_vars

InitRoundtrip ==
    /\ RoundtripInit
    /\ AuthPark /\ BatchPark /\ CassettePark /\ ChainPark /\ ClientPark /\ DownloadPark
    /\ RequestPark /\ RetryPark /\ ScopePark /\ StreamPark /\ TokenPark
    /\ ThreadsPark
    /\ AuthcodePark
    /\ ParityPark
    /\ OptionPark
SpecRoundtrip == InitRoundtrip /\ [][RoundtripNext]_vars

InitThreads ==
    /\ ThreadsInit
    /\ AuthPark /\ BatchPark /\ CassettePark /\ ChainPark /\ ClientPark /\ DownloadPark
    /\ RequestPark /\ RetryPark /\ RoundtripPark /\ ScopePark /\ StreamPark /\ TokenPark
    /\ AuthcodePark
    /\ ParityPark
    /\ OptionPark
SpecThreads == InitThreads /\ [][ThreadsNext]_vars

InitAuthcode ==
    /\ AuthcodeInit
    /\ AuthPark /\ BatchPark /\ CassettePark /\ ChainPark /\ ClientPark /\ DownloadPark
    /\ RequestPark /\ RetryPark /\ RoundtripPark /\ ScopePark /\ StreamPark /\ ThreadsPark /\ TokenPark
    /\ ParityPark
    /\ OptionPark
SpecAuthcode == InitAuthcode /\ [][AuthcodeNext]_vars

InitParity ==
    /\ ParityInit
    /\ AuthPark /\ AuthcodePark /\ BatchPark /\ CassettePark /\ ChainPark /\ ClientPark
    /\ DownloadPark /\ RequestPark /\ RetryPark /\ RoundtripPark /\ ScopePark /\ StreamPark /\ ThreadsPark /\ TokenPark
    /\ OptionPark
SpecParity == InitParity /\ [][ParityNext]_vars

InitOption ==
    /\ OptionInit
    /\ AuthPark /\ AuthcodePark /\ BatchPark /\ CassettePark /\ ChainPark /\ ClientPark
    /\ DownloadPark /\ ParityPark /\ RequestPark /\ RetryPark /\ RoundtripPark /\ ScopePark /\ StreamPark /\ ThreadsPark /\ TokenPark
SpecOption == InitOption /\ [][OptionNext]_vars

====
